---- MODULE Spec2Model ----
(***************************************************************************)
(* Model of the WiZ light controller (avi892nash/thor):                    *)
(*   - RhythmController        (lib/rhythmController.js)                   *)
(*   - WizLight, WizLightManager (lib/wizLight.ts)                         *)
(*   - the rhythm start endpoint of the HTTP facade (server.js)            *)
(* Every handler is one action per run-to-completion step of the Node.js   *)
(* event loop: a step runs from the call (or from the I/O callback that    *)
(* settles an await) up to the next await on real I/O; promise             *)
(* continuations that need no I/O run in the same step.                    *)
(***************************************************************************)
EXTENDS Integers, Sequences, FiniteSets, TLC

\* ------------------------------------------------------------------ bounds
\* API calls (startEffect / stop / setBpm) made on the rhythm controller; a
\* request to the rhythm start endpoint makes two.
MaxCalls == 4
\* Host addresses the ping sweep probes (.1 .. .MaxHosts; the code probes 254).
MaxHosts == 3
\* UDP replies that arrive during one discover() call.
MaxReplies == 2
\* WizLight handles the registry creates (addLight calls that construct one).
MaxHandles == 3
\* Single-device commands (turnOn / turnOff / updateProperties) called.
MaxCmds == 2
\* Batch calls made on the registry.
MaxBatches == 1

\* ---------------------------------------------------------------- optional
\* A JavaScript value that may be undefined / null: <<>> or <<v>>.
None == <<>>
Some(v) == <<v>>
IsDef(x) == x # None
Val(x) == x[1]

Max(a, b) == IF a >= b THEN a ELSE b
Min(a, b) == IF a <= b THEN a ELSE b

(***************************************************************************)
(*                         RHYTHM CONTROLLER                               *)
(***************************************************************************)
VARIABLES
  isActive,        \* this.isActive
  currentEffect,   \* this.currentEffect (None = null)
  bpm,             \* this.bpm
  beatInterval,    \* this.beatInterval: id of the timer held, 0 = null
  effectInterval,  \* this.effectInterval: id of the timer held, 0 = null
  timers,          \* the event loop's live setInterval timers
  rcalls,          \* async calls suspended in stop()'s await of the turn-offs
  nCalls,          \* number of API calls made so far
  stale,           \* ids of timers that were live when a completed switch was called
  tickRest,        \* what ticks that began still have to send: [kind, i]
  request,         \* what the last POST /api/rhythm/start asked for (None = no request yet)
  robs             \* what the last step did (commands sent, events, result)

rvars == <<isActive, currentEffect, bpm, beatInterval, effectInterval,
           timers, rcalls, nCalls, stale, tickRest, request, robs>>

VARIABLES
  lights,     \* WizLightManager.lights: address -> handle id, 0 = not managed.
              \* Handle ids grow with every construction, so the Map's insertion
              \* order is the order of the ids.
  nHandles,   \* WizLight objects constructed so far (handles 1..nHandles exist)
  lstate,     \* handle id -> that WizLight's this.state
  wired,      \* handle id -> the addresses of the manager's stateChange listeners on it
  cmds,       \* executeCommand calls suspended in sendCommand's await
  sockets,    \* command sockets created and not closed
  batch,      \* the batch call in progress (turnOnAll / turnOffAll / updateAllLights)
  nCmds,      \* single-device commands called so far
  nBatches,   \* batch calls made so far
  lobs        \* what the last step did

lvars == <<lights, nHandles, lstate, wired, cmds, sockets, batch, nCmds, nBatches, lobs>>

VARIABLES
  dphase,             \* where the discover() call is: IDLE, BROADCASTING, PING_SWEEPING, DONE
  dtimeout,           \* the timeout argument of the call, in ms
  now,                \* ms elapsed since discover() was called
  devices,            \* discoverViaBroadcast's devices array
  dtimers,            \* the pending timers of the call: [kind, i, at]
  probes,             \* host -> the ping probe for that host
  discoveredDevices,  \* WizLightManager.discoveredDevices: the list discover() returned
  dstat               \* what the call did so far (datagrams sent, replies, times)

dvars == <<dphase, dtimeout, now, devices, dtimers, probes, discoveredDevices, dstat>>

vars == <<rvars, lvars, dvars>>

\* The devices attached to the controller (this.lights).
RLights == {"10.0.0.1", "10.0.0.2"}
\* this.lights in array order.
LightsInOrder == <<"10.0.0.1", "10.0.0.2">>

EffectNames == {"pulse", "rainbow", "strobe", "wave", "beat", "breathe"}
\* Names callers pass to startEffect: the six effects and an unrecognized one.
NameInputs == EffectNames \cup {"disco"}
\* Options objects callers pass: {} (the default) or a caller-chosen object.
DefaultOptions == "{}"
OptionInputs == {DefaultOptions, "{color:red}"}
BpmInputs == {30, 90, 250}

InitialBpm == 120
MinBpm == 60
MaxBpm == 200

\* Faulty variant: the upper bound is not applied.
ClampBpm_NoUpperBound(b) == Max(MinBpm, b)

\* Math.max(60, Math.min(200, bpm))
ClampBpm(b) == Max(MinBpm, Min(MaxBpm, b))

\* Which handle startEffect's switch assigns for an effect.
HandleOf(e) == IF e \in {"pulse", "strobe", "beat"} THEN "beatInterval" ELSE "effectInterval"

\* The setInterval period of an effect as the fraction num/den of a millisecond:
\* beatDuration = (60 / bpm) * 1000, then the effect's factor.
PeriodOf(e, b) ==
  CASE e = "pulse"   -> [num |-> 60000,     den |-> b]
    [] e = "rainbow" -> [num |-> 60000,     den |-> b * 4]
    [] e = "strobe"  -> [num |-> 60000,     den |-> b * 2]
    [] e = "wave"    -> [num |-> 60000,     den |-> b * 8]
    [] e = "beat"    -> [num |-> 60000,     den |-> b]
    [] e = "breathe" -> [num |-> 60000 * 2, den |-> b]

NoObs == [op |-> "init", call |-> 0, wasActive |-> FALSE, sent |-> {}, cmd |-> "none",
          timer |-> 0, effect |-> None, options |-> DefaultOptions,
          origEffect |-> None, origOptions |-> DefaultOptions, period |-> [num |-> 0, den |-> 1],
          threw |-> FALSE, emitted |-> <<>>, cleared |-> {}, old |-> {}, bpmInput |-> None]

RInit ==
  /\ isActive = FALSE
  /\ currentEffect = None
  /\ bpm = InitialBpm
  /\ beatInterval = 0
  /\ effectInterval = 0
  /\ timers = {}
  /\ rcalls = {}
  /\ nCalls = 0
  /\ stale = {}
  /\ tickRest = {}
  /\ request = None
  /\ robs = NoObs

\* The controller's fields as one record, so that the synchronous pieces of the
\* handlers compose.
RS == [isActive |-> isActive, currentEffect |-> currentEffect, bpm |-> bpm,
       beatInterval |-> beatInterval, effectInterval |-> effectInterval,
       timers |-> timers]

Held(s) == {s.beatInterval, s.effectInterval} \ {0}
LiveIds(s) == {t.id : t \in s.timers}

\* stop(), the synchronous part up to the await: isActive = false, clearInterval
\* on each non-null handle and the handle nulled. (The turnOff() calls that
\* follow are recorded by the actions.)
StopSync(s) ==
  [s EXCEPT !.isActive = FALSE,
            !.timers = {t \in s.timers : t.id \notin Held(s)},
            !.beatInterval = 0,
            !.effectInterval = 0]

\* stop() after the await: emit effectStopped, currentEffect = null.
StopTail(s) == [s EXCEPT !.currentEffect = None]

\* startEffect after its optional stop: currentEffect and isActive are set, then
\* the switch stores a new setInterval timer (id) in the effect's handle,
\* overwriting the handle; an unrecognized name throws after the two assignments.
StartBody(s, id, e, o) ==
  LET s1 == [s EXCEPT !.currentEffect = Some(e), !.isActive = TRUE]
      t  == [id |-> id, effect |-> e, options |-> o, period |-> PeriodOf(e, s.bpm)]
  IN IF e \notin EffectNames THEN s1
     ELSE IF HandleOf(e) = "beatInterval"
          THEN [s1 EXCEPT !.beatInterval = id, !.timers = @ \cup {t}]
          ELSE [s1 EXCEPT !.effectInterval = id, !.timers = @ \cup {t}]

\* Faulty variant: effectStarted is emitted before the switch.
StartEmits_BeforeSwitch(s, e, o) ==
  <<[event |-> "effectStarted", effect |-> Some(e), bpm |-> s.bpm, options |-> o]>>

\* The events startEffect emits after the switch.
StartEmits(s, e, o) ==
  IF e \in EffectNames
  THEN <<[event |-> "effectStarted", effect |-> Some(e), bpm |-> s.bpm, options |-> o]>>
  ELSE <<>>

StopEmits(s) == <<[event |-> "effectStopped", effect |-> s.currentEffect, bpm |-> 0,
                   options |-> DefaultOptions]>>

\* The options of the effect that is running (held by its timer's closure).
RunningOptions(s) ==
  IF \E t \in s.timers : t.id \in Held(s) /\ Some(t.effect) = s.currentEffect
  THEN (CHOOSE t \in s.timers : t.id \in Held(s) /\ Some(t.effect) = s.currentEffect).options
  ELSE DefaultOptions

SetRS(s) ==
  /\ isActive' = s.isActive
  /\ currentEffect' = s.currentEffect
  /\ bpm' = s.bpm
  /\ beatInterval' = s.beatInterval
  /\ effectInterval' = s.effectInterval
  /\ timers' = s.timers

Stopped == ~isActive /\ rcalls = {} /\ timers = {}

NewCall(id, cont, e, o, old, viaRestart, origE, origO, wasActive) ==
  [id |-> id, cont |-> cont, effect |-> e, options |-> o, old |-> old,
   viaRestart |-> viaRestart, origEffect |-> origE, origOptions |-> origO,
   wasActive |-> wasActive]

----
\* startEffect(effectName, options)
StartEffect(e, o) ==
  /\ UNCHANGED <<lvars, dvars, tickRest, request>>
  /\ nCalls < MaxCalls
  /\ nCalls' = nCalls + 1
  /\ IF isActive
     THEN \* await this.stop(): suspended until the turn-offs settle
          /\ SetRS(StopSync(RS))
          /\ rcalls' = rcalls \cup {NewCall(nCalls + 1, "start", e, o, LiveIds(RS), FALSE, None, DefaultOptions, TRUE)}
          /\ robs' = [NoObs EXCEPT !.op = "startEffect", !.call = nCalls + 1, !.wasActive = TRUE,
                                   !.sent = RLights, !.cmd = "turnOff", !.cleared = Held(RS)]
          /\ UNCHANGED stale
     ELSE /\ SetRS(StartBody(RS, nCalls + 1, e, o))
          /\ robs' = [NoObs EXCEPT !.op = "started", !.call = nCalls + 1,
                                   !.timer = IF e \in EffectNames THEN nCalls + 1 ELSE 0,
                                   !.effect = Some(e), !.options = o,
                                   !.threw = (e \notin EffectNames),
                                   !.emitted = StartEmits(RS, e, o)]
          /\ UNCHANGED <<rcalls, stale>>

\* stop()
Stop ==
  /\ UNCHANGED <<lvars, dvars, tickRest, request>>
  /\ nCalls < MaxCalls
  /\ nCalls' = nCalls + 1
  /\ SetRS(StopSync(RS))
  /\ rcalls' = rcalls \cup {NewCall(nCalls + 1, "none", "", DefaultOptions, {}, FALSE, None, DefaultOptions, isActive)}
  /\ robs' = [NoObs EXCEPT !.op = "stop", !.call = nCalls + 1, !.wasActive = isActive,
                           !.sent = RLights, !.cmd = "turnOff", !.cleared = Held(RS)]
  /\ UNCHANGED stale

\* setBpm(bpm), with restart() up to its first await
SetBpm(b) ==
  /\ UNCHANGED <<lvars, dvars, tickRest, request>>
  /\ nCalls < MaxCalls
  /\ nCalls' = nCalls + 1
  /\ LET s1 == [RS EXCEPT !.bpm = ClampBpm(b)]
     IN IF s1.isActive /\ IsDef(s1.currentEffect)
        THEN /\ SetRS(StopSync(s1))
             /\ rcalls' = rcalls \cup {NewCall(nCalls + 1, "restart", Val(s1.currentEffect), DefaultOptions,
                                               {}, TRUE, s1.currentEffect, RunningOptions(s1), TRUE)}
             /\ robs' = [NoObs EXCEPT !.op = "setBpm", !.call = nCalls + 1, !.wasActive = TRUE,
                                      !.sent = RLights, !.cmd = "turnOff", !.cleared = Held(RS),
                                      !.bpmInput = Some(b)]
        ELSE /\ SetRS(s1)
             /\ robs' = [NoObs EXCEPT !.op = "setBpm", !.call = nCalls + 1, !.wasActive = isActive,
                                      !.bpmInput = Some(b)]
             /\ UNCHANGED rcalls
  /\ UNCHANGED stale

\* The turn-offs a suspended call awaits have settled: stop() finishes, and the
\* caller's continuation runs.
Resume(c) ==
  /\ UNCHANGED <<lvars, dvars, tickRest, request>>
  /\ c \in rcalls
  /\ LET s1 == StopTail(RS)
     IN CASE c.cont = "none" ->
               /\ SetRS(s1)
               /\ rcalls' = rcalls \ {c}
               /\ robs' = [NoObs EXCEPT !.op = "stopped", !.call = c.id, !.wasActive = c.wasActive,
                                        !.emitted = StopEmits(RS)]
               /\ UNCHANGED stale
          [] c.cont = "start" ->
               /\ SetRS(StartBody(s1, c.id, c.effect, c.options))
               /\ rcalls' = rcalls \ {c}
               /\ stale' = stale \cup c.old
               /\ robs' = [NoObs EXCEPT !.op = IF c.viaRestart THEN "restarted" ELSE "switched",
                                        !.call = c.id,
                                        !.timer = IF c.effect \in EffectNames THEN c.id ELSE 0,
                                        !.effect = Some(c.effect), !.options = c.options,
                                        !.origEffect = c.origEffect, !.origOptions = c.origOptions,
                                        !.period = IF c.effect \in EffectNames
                                                   THEN PeriodOf(c.effect, bpm) ELSE NoObs.period,
                                        !.threw = (c.effect \notin EffectNames),
                                        !.old = c.old \cap LiveIds(s1),
                                        !.emitted = StopEmits(RS) \o StartEmits(s1, c.effect, c.options)]
          [] c.cont = "restart" ->
               \* restart(): await this.startEffect(effect)
               IF s1.isActive
               THEN /\ SetRS(StopSync(s1))
                    /\ rcalls' = (rcalls \ {c}) \cup {[c EXCEPT !.cont = "start", !.old = LiveIds(s1)]}
                    /\ robs' = [NoObs EXCEPT !.op = "startEffect", !.call = c.id, !.wasActive = TRUE,
                                             !.sent = RLights, !.cmd = "turnOff",
                                             !.cleared = Held(s1), !.emitted = StopEmits(RS)]
                    /\ UNCHANGED stale
               ELSE /\ SetRS(StartBody(s1, c.id, c.effect, c.options))
                    /\ rcalls' = rcalls \ {c}
                    /\ robs' = [NoObs EXCEPT !.op = "restarted", !.call = c.id,
                                             !.timer = IF c.effect \in EffectNames THEN c.id ELSE 0,
                                             !.effect = Some(c.effect), !.options = c.options,
                                             !.origEffect = c.origEffect, !.origOptions = c.origOptions,
                                             !.period = IF c.effect \in EffectNames
                                                        THEN PeriodOf(c.effect, bpm) ELSE NoObs.period,
                                             !.threw = (c.effect \notin EffectNames),
                                             !.emitted = StopEmits(RS) \o StartEmits(s1, c.effect, c.options)]
                    /\ UNCHANGED stale
  /\ UNCHANGED nCalls

\* The devices an effect's tick commands before its first await: all of them
\* (Promise.all over this.lights.map) or, in the for loops of rainbow and wave
\* with their await per device, the first one.
FirstSent(e) ==
  IF e \in {"rainbow", "wave"} THEN {LightsInOrder[1]} ELSE RLights

Continuation(kind, i) == [kind |-> kind, i |-> i]

\* What the tick has still to send after its first await: pulse's dim step
\* (setTimeout(..., 100) after the colour commands settle), the rest of the for
\* loop of rainbow and wave. One continuation of a kind stands for all the
\* outstanding ones of that kind.
TickPending(e) ==
  CASE e = "pulse" -> {Continuation("dim", 0)}
    [] e \in {"rainbow", "wave"} /\ Len(LightsInOrder) > 1 -> {Continuation("loop", 2)}
    [] OTHER -> {}

\* The command of a tick: strobe sends setColor or turnOff on Math.random().
TickCommands(e) == IF e = "strobe" THEN {"setColor", "turnOff"} ELSE {"setColor"}

\* A live setInterval timer fires and runs its effect up to the first await.
Tick(t) ==
  /\ UNCHANGED <<lvars, dvars, request>>
  /\ t \in timers
  /\ tickRest' = tickRest \cup TickPending(t.effect)
  /\ \E cmd \in TickCommands(t.effect) :
       robs' = [NoObs EXCEPT !.op = "tick", !.timer = t.id, !.effect = Some(t.effect),
                             !.options = t.options, !.sent = FirstSent(t.effect), !.cmd = cmd]
  /\ UNCHANGED <<isActive, currentEffect, bpm, beatInterval, effectInterval,
                 timers, rcalls, nCalls, stale>>

\* A tick goes on after its await: the 100 ms timer of a pulse fires and dims
\* every device, or the for loop commands its next device. Neither looks at
\* isActive or at the handles.
TickContinue(k) ==
  /\ UNCHANGED <<lvars, dvars, request>>
  /\ k \in tickRest
  /\ IF k.kind = "dim"
     THEN /\ tickRest' = tickRest \ {k}
          /\ robs' = [NoObs EXCEPT !.op = "dim", !.sent = RLights, !.cmd = "setBrightness"]
     ELSE /\ tickRest' = (tickRest \ {k}) \cup
                          (IF k.i < Len(LightsInOrder) THEN {Continuation("loop", k.i + 1)} ELSE {})
          /\ robs' = [NoObs EXCEPT !.op = "loop", !.sent = {LightsInOrder[k.i]}, !.cmd = "setColor"]
  /\ UNCHANGED <<isActive, currentEffect, bpm, beatInterval, effectInterval,
                 timers, rcalls, nCalls, stale>>

\* Faulty variant: the isActive test is missing.
BeatTargets_Unguarded(active) == RLights

\* triggerBeat: if (!this.isActive) return; then one setColor per device.
BeatTargets(active) == IF active THEN RLights ELSE {}

\* triggerBeat(intensity): the colour is random and the brightness follows the
\* intensity; neither is tracked.
TriggerBeat ==
  /\ UNCHANGED <<lvars, dvars, request>>
  /\ robs' = [NoObs EXCEPT !.op = "triggerBeat", !.wasActive = isActive,
                           !.sent = BeatTargets(isActive),
                           !.cmd = IF BeatTargets(isActive) = {} THEN "none" ELSE "setColor"]
  /\ UNCHANGED <<isActive, currentEffect, bpm, beatInterval, effectInterval,
                 timers, rcalls, nCalls, stale, tickRest>>

\* POST /api/rhythm/start with body {effect, bpm, options}, up to the handler's
\* await: rhythmController.setBpm(bpm), whose restart() is not awaited, then at
\* once rhythmController.startEffect(effect, options). (The 400 answer for a
\* controller without lights does not arise: lights are attached.)
RhythmStart(b, e, o) ==
  /\ UNCHANGED <<lvars, dvars, tickRest, stale>>
  /\ nCalls + 2 <= MaxCalls
  /\ nCalls' = nCalls + 2
  /\ request' = Some([effect |-> e, options |-> o, bpm |-> b, running |-> currentEffect,
                      wasActive |-> isActive])
  /\ LET sb == [RS EXCEPT !.bpm = ClampBpm(b)]
         restarting == sb.isActive /\ IsDef(sb.currentEffect)
         s1 == IF restarting THEN StopSync(sb) ELSE sb
         viaSetBpm == IF restarting
                      THEN {NewCall(nCalls + 1, "restart", Val(sb.currentEffect), DefaultOptions,
                                    {}, TRUE, sb.currentEffect, RunningOptions(sb), TRUE)}
                      ELSE {}
     IN IF s1.isActive
        THEN /\ SetRS(StopSync(s1))
             /\ rcalls' = rcalls \cup viaSetBpm \cup
                            {NewCall(nCalls + 2, "start", e, o, LiveIds(s1), FALSE, None,
                                     DefaultOptions, TRUE)}
             /\ robs' = [NoObs EXCEPT !.op = "rhythmStart", !.call = nCalls + 2, !.wasActive = TRUE,
                                      !.sent = RLights, !.cmd = "turnOff", !.cleared = Held(RS),
                                      !.bpmInput = Some(b)]
        ELSE /\ SetRS(StartBody(s1, nCalls + 2, e, o))
             /\ rcalls' = rcalls \cup viaSetBpm
             /\ robs' = [NoObs EXCEPT !.op = "rhythmStart", !.call = nCalls + 2,
                                      !.wasActive = isActive,
                                      !.sent = IF restarting THEN RLights ELSE {},
                                      !.cmd = IF restarting THEN "turnOff" ELSE "none",
                                      !.cleared = Held(RS),
                                      !.timer = IF e \in EffectNames THEN nCalls + 2 ELSE 0,
                                      !.effect = Some(e), !.options = o,
                                      !.threw = (e \notin EffectNames),
                                      !.emitted = StartEmits(s1, e, o),
                                      !.bpmInput = Some(b)]

RNext ==
  \/ \E e \in NameInputs, o \in OptionInputs : StartEffect(e, o)
  \/ Stop
  \/ \E b \in BpmInputs : SetBpm(b)
  \/ \E c \in rcalls : Resume(c)
  \/ \E t \in timers : Tick(t)
  \/ \E k \in tickRest : TickContinue(k)
  \/ TriggerBeat


----
\* ------------------------------------------------------- rhythm claims

\* C1: in every reachable state of the scheduler at most one effect tick timer
\* is live, whatever the interleaving of startEffect, setBpm and stop calls
\* (also calls made while an earlier stop() still awaits the turn-offs).
C1_AtMostOneLiveTimer == Cardinality(timers) <= 1

\* C6: stop() called while the scheduler is STOPPED (not running, nothing in
\* flight, no timer) sends no command to any device, changes no scheduler state
\* and raises no error.
C6_StopWhileStoppedIsNoOp ==
  [][(Stopped /\ robs'.op = "stop")
       => /\ robs'.sent = {}
          /\ ~robs'.threw
          /\ UNCHANGED <<isActive, currentEffect, bpm, beatInterval, effectInterval,
                         timers, rcalls>>]_vars

\* C7: when startEffect(B) is called while an effect is running, every timer
\* that was live at the call is cancelled and every attached device has been
\* sent a turnOff when B's timer is scheduled, and no timer that was live at the
\* call ticks after the switch.
C7_SwitchTearsDownOldEffect ==
  /\ (robs.op = "startEffect" => robs.sent = RLights /\ robs.cmd = "turnOff")
  /\ (robs.op = "switched" => robs.old = {})
  /\ (robs.op = "tick" => robs.timer \notin stale)

\* C8: when the restart that setBpm triggered completes, the scheduler runs the
\* same effect with the identical options it was started with, at the period
\* derived from the new bpm.
C8_RestartKeepsEffectAndOptions ==
  (robs.op = "restarted" /\ ~robs.threw)
    => /\ robs.effect = robs.origEffect
       /\ robs.options = robs.origOptions
       /\ robs.period = PeriodOf(Val(robs.effect), bpm)

\* x saturated to [lo, hi]: the bound on the side where x leaves the range.
Saturated(x, lo, hi) == IF x < lo THEN lo ELSE IF x > hi THEN hi ELSE x

\* C14: for every bpm input setBpm stores the input saturated to [60,200]
\* (below 60 becomes 60, above 200 becomes 200), and the controller's bpm is
\* within [60,200] in every reachable state.
C14_BpmSaturated ==
  /\ bpm \in 60..200
  /\ robs.op = "setBpm" => bpm = Saturated(Val(robs.bpmInput), 60, 200)

\* setBpm was called with an input above the range while an effect was running.
C14_Witness ==
  /\ robs.op = "setBpm" /\ robs.wasActive
  /\ Val(robs.bpmInput) > 200
  /\ bpm = 200

Emitted(ev) == \E k \in 1..Len(robs.emitted) : robs.emitted[k].event = ev

\* C23: startEffect with a name that is none of the six effects fails with the
\* unknown-effect error, schedules no timer and emits no effectStarted, both
\* when the scheduler was idle and when a running effect was stopped first.
C23_UnknownEffectRejected ==
  [][(robs'.op \in {"started", "switched"})
       => /\ robs'.threw <=> (robs'.effect \notin {Some(e) : e \in EffectNames})
          /\ robs'.threw
               => /\ timers' \subseteq timers
                  /\ robs'.timer = 0
                  /\ ~Emitted("effectStarted")']_vars

\* startEffect("disco") was called while an effect was running, and has thrown
\* after the stop it awaited.
C23_Witness ==
  /\ robs.op = "switched" /\ robs.threw /\ robs.effect = Some("disco")
  /\ Emitted("effectStopped")

\* C24: stop() called on a running scheduler cancels the effect timer, commands
\* turnOff to every attached device, raises no error, and when it completes the
\* running flag is false and the current effect is cleared.
C24_StopLeavesSchedulerStopped ==
  /\ (robs.op = "stop" /\ robs.wasActive)
       => /\ robs.sent = RLights /\ robs.cmd = "turnOff" /\ ~robs.threw
          /\ Held(RS) = {} /\ robs.cleared \cap LiveIds(RS) = {}
  /\ (robs.op = "stopped" /\ robs.wasActive)
       => ~robs.threw /\ ~isActive /\ currentEffect = None

\* C25: triggerBeat while the scheduler is not running sends no command and
\* changes no state; while it is running it commands every attached device
\* once and leaves the timers, the handles, the effect and the bpm as they were.
C25_TriggerBeatFrame ==
  [][robs'.op = "triggerBeat"
       => /\ UNCHANGED <<isActive, currentEffect, bpm, beatInterval, effectInterval,
                         timers, rcalls, tickRest>>
          /\ IF isActive THEN robs'.sent = RLights /\ robs'.cmd = "setColor"
                         ELSE robs'.sent = {} /\ robs'.cmd = "none"]_vars

\* triggerBeat was called while the scheduler was not running, with a stop()
\* still awaiting its turn-offs.
C25_Witness ==
  /\ robs.op = "triggerBeat" /\ ~robs.wasActive /\ robs.sent = {}
  /\ rcalls # {}

\* C28: after a stop() has completed and until the next startEffect or
\* triggerBeat (the scheduler is not running and no call is in flight), neither
\* the dim step of a pulse tick nor the rest of a tick in progress sends a
\* command.
C28_NoCommandAfterStop ==
  (robs.op \in {"dim", "loop"} /\ ~isActive /\ rcalls = {}) => robs.sent = {}

\* C29: the running flag is true only if the current effect is one of the six
\* effects and a tick timer is scheduled, and false only if no tick timer is
\* scheduled.
C29_RunningFlagMatchesTimer ==
  /\ isActive => /\ currentEffect \in {Some(e) : e \in EffectNames}
                 /\ Held(RS) \cap LiveIds(RS) # {}
  /\ ~isActive => Held(RS) \cap LiveIds(RS) = {}

\* C37: for each of the six effects startEffect schedules one repeating tick
\* whose period is 60000 / bpm ms times 1, 1/2, 1/4 or 1/8: the timer a start
\* has just scheduled has such a period for the bpm in force, so no longer than
\* one beat.
C37_PeriodIsFractionOfBeat ==
  (robs.op \in {"started", "switched", "restarted"} /\ ~robs.threw)
    => /\ Cardinality({t \in timers : t.id = robs.timer}) = 1
       /\ \A t \in timers :
            t.id = robs.timer
              => /\ \E k \in {1, 2, 4, 8} : t.period.num * bpm * k = 60000 * t.period.den
                 /\ t.period.num * bpm <= 60000 * t.period.den

\* The requests to the rhythm start endpoint, with the continuations and the
\* ticks they set off.
FacadeNext ==
  \/ \E b \in BpmInputs, e \in NameInputs, o \in OptionInputs : RhythmStart(b, e, o)
  \/ \E c \in rcalls : Resume(c)
  \/ \E t \in timers : Tick(t)
  \/ \E k \in tickRest : TickContinue(k)

\* C30: when the rhythm start handler ran while an effect was running, so that
\* startEffect(X, options) was called right after setBpm(bpm) without waiting
\* for the restart setBpm triggered, then once every pending operation has
\* settled the scheduler runs X with the given options and exactly one timer is
\* live.
C30_StartRequestWins ==
  (/\ request # None /\ rcalls = {}
   /\ Val(request).wasActive /\ Val(request).running # None
   /\ Val(request).effect \in EffectNames)
    => /\ isActive
       /\ currentEffect = Some(Val(request).effect)
       /\ RunningOptions(RS) = Val(request).options
       /\ Cardinality(timers) = 1

(***************************************************************************)
(*                     WIZ LIGHT AND WIZ LIGHT MANAGER                     *)
(***************************************************************************)
IPs == {"192.168.1.10", "192.168.1.11"}

\* this.state = {} : no key is set.
EmptyState == [state |-> None, brightness |-> None, color |-> None, temperature |-> None]

\* Object.assign(this.state, newState): the keys newState has are overwritten.
Assign(st, upd) == [k \in DOMAIN st |-> IF k \in DOMAIN upd THEN Some(upd[k]) ELSE st[k]]

NoParams == [k \in {} |-> 0]

\* const clamp = (val, min, max) => Math.max(min, Math.min(max, val))
clamp(val, min, max) == Max(min, Min(max, val))

\* JavaScript truthiness of an optional number (undefined and 0 are falsy).
Truthy(x) == IsDef(x) /\ Val(x) # 0

\* Payload helpers: UpdatePropertiesPayload {color?: {r, g, b, brightness?}, brightness?, temperature?}
Payload(c, b, t) == [color |-> c, brightness |-> b, temperature |-> t]
Color(r, g, b, br) == [r |-> r, g |-> g, b |-> b, brightness |-> br]

\* payload.color && payload.color.r !== undefined && ... .g ... && ... .b ...
HasFullColor(p) ==
  /\ IsDef(p.color)
  /\ IsDef(Val(p.color).r) /\ IsDef(Val(p.color).g) /\ IsDef(Val(p.color).b)

\* payload.color.brightness || payload.brightness || 100
ColorBrightness(p) ==
  IF Truthy(Val(p.color).brightness) THEN Val(Val(p.color).brightness)
  ELSE IF Truthy(p.brightness) THEN Val(p.brightness)
  ELSE 100

\* Faulty variant: the temperature branch is tried first.
UpdateParams_TemperatureFirst(p) ==
  IF IsDef(p.temperature)
  THEN [temp |-> clamp(Val(p.temperature), 2200, 6500)]
  ELSE IF HasFullColor(p)
  THEN [r |-> clamp(Val(Val(p.color).r), 0, 255),
        g |-> clamp(Val(Val(p.color).g), 0, 255),
        b |-> clamp(Val(Val(p.color).b), 0, 255),
        dimming |-> clamp(ColorBrightness(p), 1, 100)]
  ELSE IF IsDef(p.brightness)
  THEN [dimming |-> clamp(Val(p.brightness), 1, 100)]
  ELSE NoParams

\* updateProperties, lines 466-488: the params put on the wire.
UpdateParams(p) ==
  IF HasFullColor(p)
  THEN [r |-> clamp(Val(Val(p.color).r), 0, 255),
        g |-> clamp(Val(Val(p.color).g), 0, 255),
        b |-> clamp(Val(Val(p.color).b), 0, 255),
        dimming |-> clamp(ColorBrightness(p), 1, 100)]
  ELSE IF IsDef(p.brightness)
  THEN [dimming |-> clamp(Val(p.brightness), 1, 100)]
  ELSE IF IsDef(p.temperature)
  THEN [temp |-> clamp(Val(p.temperature), 2200, 6500)]
  ELSE NoParams

\* updateProperties, lines 466-488: the stateUpdate merged into this.state.
UpdateState(p) ==
  IF HasFullColor(p)
  THEN [color |-> Val(p.color), brightness |-> ColorBrightness(p)]
  ELSE IF IsDef(p.brightness)
  THEN [brightness |-> Val(p.brightness)]
  ELSE IF IsDef(p.temperature)
  THEN [temperature |-> Val(p.temperature)]
  ELSE NoParams

\* Faulty variant: the empty-params check is missing.
UpdateRejects_Never(params) == FALSE

\* if (Object.keys(params).length === 0) throw new Error('No valid properties provided')
UpdateRejects(params) == DOMAIN params = {}

\* The payloads callers pass.
Red == Color(Some(255), Some(0), Some(0), None)
NoPayload == Payload(None, None, None)
PayloadInputs ==
  { NoPayload,                                             \* {}
    Payload(Some(Color(Some(255), None, None, None)), None, None),  \* {color: {r: 255}}
    Payload(None, None, Some(4000)),                       \* {temperature: 4000}
    Payload(Some(Red), Some(50), None),                    \* {color: red, brightness: 50}
    Payload(None, Some(0), None),                          \* {brightness: 0}
    \* {color: {r: 300, g: -5, b: 0, brightness: 0}, temperature: 9000}
    Payload(Some(Color(Some(300), Some(-5), Some(0), Some(0))), None, Some(9000)),
    Payload(None, Some(150), Some(1000)),                  \* {brightness: 150, temperature: 1000}
    Payload(None, None, Some(1000)) }                      \* {temperature: 1000}

----
\* Faulty variant: the state is merged before the result of the send is known.
ExecuteCommandOutcome_MergeFirst(st, newState, ok) ==
  [state |-> Assign(st, newState), emitted |-> IF ok THEN 1 ELSE 0, ret |-> ok, threw |-> FALSE]

\* executeCommand after the await of sendCommand: on success the state is merged,
\* stateChange is emitted once and true is returned; on a rejected send the catch
\* logs and returns false.
ExecuteCommandOutcome(st, newState, ok) ==
  IF ok
  THEN [state |-> Assign(st, newState), emitted |-> 1, ret |-> TRUE, threw |-> FALSE]
  ELSE [state |-> st, emitted |-> 0, ret |-> FALSE, threw |-> FALSE]

NoLObs == [op |-> "init", phase |-> "none", h |-> 0, ip |-> "", payload |-> NoPayload,
           ok |-> FALSE, ret |-> None, threw |-> FALSE, sent |-> 0, emitted |-> 0,
           before |-> EmptyState, results |-> <<>>, atStart |-> {}, kept |-> {},
           outcomes |-> <<>>, agg |-> FALSE, params |-> NoParams,
           created |-> 0, listeners |-> 0, replied |-> FALSE, notified |-> <<>>,
           path |-> <<>>, handler |-> "none", status |-> 0]

\* The batch call in progress: the operation, its payload, the Map iterator's
\* position (the id of the entry it yielded last), the address being awaited and
\* the results pushed so far. atStart / entries / outcomes record, for the
\* properties, the set managed when the call started and what each device did.
NoBatch == [op |-> "none", agg |-> FALSE, payload |-> NoPayload, last |-> 0, cur |-> "",
            results |-> <<>>, aborted |-> FALSE, atStart |-> {}, entries |-> {},
            outcomes |-> <<>>]

LInit ==
  /\ lights = [ip \in IPs |-> 0]
  /\ nHandles = 0
  /\ lstate = <<>>
  /\ wired = <<>>
  /\ cmds = {}
  /\ sockets = 0
  /\ batch = NoBatch
  /\ nCmds = 0
  /\ nBatches = 0
  /\ lobs = NoLObs

Managed == {ip \in IPs : lights[ip] # 0}
Handles == 1..nHandles

\* A free id for a suspended command.
FreeCmdId == CHOOSE i \in 1..(MaxCmds + MaxBatches + 1) : \A c \in cmds : c.id # i

\* sendCommand up to its await: a socket is created and the datagram handed to it.
NewCmd(h, op, newState, owner) ==
  [id |-> FreeCmdId, h |-> h, op |-> op, newState |-> newState, owner |-> owner, sent |-> 1]

----
\* Faulty variant: the has(ip) check is missing, a handle is always constructed.
AddLightOutcome_AlwaysNew(ls, n, ip) ==
  [lights |-> [ls EXCEPT ![ip] = n + 1], created |-> 1, listeners |-> 1, ret |-> n + 1]

\* addLight on the Map ls when n handles exist: the Map afterwards, the number of
\* WizLight objects constructed, the number of stateChange listeners registered
\* and the handle returned.
AddLightOutcome(ls, n, ip) ==
  IF ls[ip] # 0
  THEN [lights |-> ls, created |-> 0, listeners |-> 0, ret |-> ls[ip]]
  ELSE [lights |-> [ls EXCEPT ![ip] = n + 1], created |-> 1, listeners |-> 1, ret |-> n + 1]

\* Faulty variant: a listener is registered on every call, on the handle
\* returned (at most twice).
WireListener_OnEveryCall(w, out, ip) ==
  IF out.created = 1 THEN Append(w, <<ip>>)
  ELSE [w EXCEPT ![out.ret] = IF Len(@) < 2 THEN Append(@, ip) ELSE @]

\* light.on('stateChange', ...) in addLight: the handle just constructed gets one
\* listener, which closes over the address; a call that returns the existing
\* handle registers nothing. No code removes a listener.
WireListener(w, out, ip) ==
  IF out.created = 1 THEN Append(w, <<ip>>) ELSE w

\* this.emit('stateChange', this.state) of handle h: each listener on it makes
\* the manager emit lightStateChange {ip, state} with its own address.
Notify(h, emitted, st) ==
  IF emitted = 0 THEN <<>>
  ELSE [k \in 1..Len(wired[h]) |-> [ip |-> wired[h][k], state |-> st, handle |-> h]]

\* addLight(ip, port)
AddLight(ip) ==
  /\ UNCHANGED <<rvars, dvars>>
  /\ LET out == AddLightOutcome(lights, nHandles, ip)
     IN /\ nHandles + out.created <= MaxHandles
        /\ nHandles' = nHandles + out.created
        /\ lights' = out.lights
        /\ lstate' = IF out.created = 1 THEN Append(lstate, EmptyState) ELSE lstate
        /\ wired' = WireListener(wired, out, ip)
        /\ lobs' = [NoLObs EXCEPT !.op = "addLight", !.ip = ip, !.h = out.ret,
                                 !.created = out.created, !.listeners = out.listeners]
  /\ UNCHANGED <<cmds, sockets, batch, nCmds, nBatches>>

\* Faulty variant: true is returned but the entry stays in the Map.
RemoveLightOutcome_KeepsEntry(ls, ip) ==
  IF ls[ip] # 0
  THEN [lights |-> ls, ret |-> TRUE, emitted |-> 1]
  ELSE [lights |-> ls, ret |-> FALSE, emitted |-> 0]

\* removeLight on the Map ls: the Map afterwards, the value returned and the
\* number of lightRemoved notifications emitted.
RemoveLightOutcome(ls, ip) ==
  IF ls[ip] # 0
  THEN [lights |-> [ls EXCEPT ![ip] = 0], ret |-> TRUE, emitted |-> 1]
  ELSE [lights |-> ls, ret |-> FALSE, emitted |-> 0]

\* removeLight(ip)
RemoveLight(ip) ==
  /\ UNCHANGED <<rvars, dvars>>
  /\ LET out == RemoveLightOutcome(lights, ip)
     IN /\ lights' = out.lights
        /\ lobs' = [NoLObs EXCEPT !.op = "removeLight", !.ip = ip, !.h = lights[ip],
                                 !.ret = Some(out.ret), !.emitted = out.emitted]
  /\ UNCHANGED <<nHandles, wired, lstate, cmds, sockets, batch, nCmds, nBatches>>

\* getLight(ip): the handle, or undefined
getLight(ip) == IF lights[ip] # 0 THEN Some(lights[ip]) ELSE None

\* getLightCount()
getLightCount == Cardinality(Managed)

\* disconnectAll(): every handle is disconnected and the Map is cleared. The
\* method has no await on I/O, it runs in one step.
DisconnectAll ==
  /\ UNCHANGED <<rvars, dvars>>
  /\ lights' = [ip \in IPs |-> 0]
  /\ lobs' = [NoLObs EXCEPT !.op = "disconnectAll", !.atStart = Managed]
  /\ UNCHANGED <<nHandles, wired, lstate, cmds, sockets, batch, nCmds, nBatches>>

\* light.turnOn() / light.turnOff() up to the await in sendCommand
Power(h, on) ==
  /\ UNCHANGED <<rvars, dvars>>
  /\ h \in Handles
  /\ nCmds < MaxCmds
  /\ nCmds' = nCmds + 1
  /\ cmds' = cmds \cup {NewCmd(h, IF on THEN "turnOn" ELSE "turnOff", [state |-> on], "caller")}
  /\ sockets' = sockets + 1
  /\ lobs' = [NoLObs EXCEPT !.op = IF on THEN "turnOn" ELSE "turnOff", !.phase = "call",
                           !.h = h, !.sent = 1]
  /\ UNCHANGED <<lights, nHandles, wired, lstate, batch, nBatches>>

TurnOn(h) == Power(h, TRUE)
TurnOff(h) == Power(h, FALSE)

\* light.updateProperties(payload) up to the await in sendCommand, or its throw
UpdateProperties(h, p) ==
  /\ UNCHANGED <<rvars, dvars>>
  /\ h \in Handles
  /\ nCmds < MaxCmds
  /\ nCmds' = nCmds + 1
  /\ IF UpdateRejects(UpdateParams(p))
     THEN /\ lobs' = [NoLObs EXCEPT !.op = "updateProperties", !.phase = "call", !.h = h,
                                   !.payload = p, !.threw = TRUE]
          /\ UNCHANGED <<cmds, sockets>>
     ELSE /\ cmds' = cmds \cup {NewCmd(h, "updateProperties", UpdateState(p), "caller")}
          /\ sockets' = sockets + 1
          /\ lobs' = [NoLObs EXCEPT !.op = "updateProperties", !.phase = "call", !.h = h,
                                   !.payload = p, !.sent = 1,
                                   !.params = UpdateParams(p)]
  /\ UNCHANGED <<lights, nHandles, wired, lstate, batch, nBatches>>

\* Faulty variant: the socket is closed only when the send succeeded.
SocketsAfterSend_LeakOnError(n, err) == IF err THEN n ELSE n - 1

\* The callback of socket.send: socket.close() comes first, before err is
\* looked at.
SocketsAfterSend(n, err) == n - 1

\* Faulty variant: the promise is resolved only once the device has replied.
SendSettles_AwaitsReply(err, replied) ==
  IF err THEN "rejected" ELSE IF replied THEN "resolved" ELSE "pending"

\* sendCommand's promise in the callback of socket.send: reject(err) or
\* resolve(). The socket has no 'message' listener and is closed here, so
\* whether the device has replied plays no part.
SendSettles(err, replied) == IF err THEN "rejected" ELSE "resolved"

\* The send callback of a single-device command fires (err or not), the device's
\* reply having reached the socket or not: the socket is closed and
\* executeCommand finishes.
SendDone(c, ok) ==
  /\ UNCHANGED <<rvars, dvars>>
  /\ c \in cmds
  /\ c.owner = "caller"
  /\ \E replied \in BOOLEAN :
       LET settled == SendSettles(~ok, replied)
           out == ExecuteCommandOutcome(lstate[c.h], c.newState, settled = "resolved")
       IN IF settled = "pending"
          THEN /\ lobs' = [NoLObs EXCEPT !.op = c.op, !.phase = "waiting", !.h = c.h,
                                        !.ok = ok, !.sent = c.sent]
               /\ UNCHANGED <<lstate, cmds>>
               /\ sockets' = SocketsAfterSend(sockets, ~ok)
          ELSE /\ lstate' = [lstate EXCEPT ![c.h] = out.state]
               /\ lobs' = [NoLObs EXCEPT !.op = c.op, !.phase = "done", !.h = c.h, !.ok = ok,
                                        !.ret = Some(out.ret), !.threw = out.threw,
                                        !.sent = c.sent, !.emitted = out.emitted,
                                        !.before = lstate[c.h], !.replied = replied,
                                        !.notified = Notify(c.h, out.emitted, out.state)]
               /\ cmds' = cmds \ {c}
               /\ sockets' = SocketsAfterSend(sockets, ~ok)
  /\ UNCHANGED <<lights, nHandles, wired, batch, nCmds, nBatches>>

----
\* ------------------------------------------------------------ batch calls
BatchOps == {"turnOnAll", "turnOffAll", "updateAllLights"}
\* The batch calls made: the operation, whether it is reached through the
\* manager's own turnOn() / turnOff() / updateProperties(), and the payload.
BatchInputs ==
  {<<op, agg, NoPayload>> : op \in {"turnOnAll", "turnOffAll"}, agg \in BOOLEAN}
  \cup {<<"updateAllLights", agg, p>> :
          agg \in BOOLEAN,
          p \in {NoPayload, Payload(None, None, Some(4000))}}

\* for (const [ip, light] of this.lights): the Map iterator is live. It yields
\* the entries in insertion order; after the entry with id `last` it yields the
\* oldest entry inserted later that is in the Map now.
NextEntry(last) ==
  LET later == {ip \in IPs : lights[ip] > last}
  IN IF later = {} THEN None
     ELSE Some(CHOOSE ip \in later : \A q \in later : lights[ip] <= lights[q])

\* results.push({ ip, success })
PushResult(b, ip, success) ==
  [b EXCEPT !.results = Append(@, [ip |-> ip, success |-> success, error |-> None])]

\* Faulty variant: no try/catch around the device call: the exception leaves the loop.
CatchDevice_Rethrow(b, ip, msg) == [b EXCEPT !.aborted = TRUE]

\* catch (error) { results.push({ ip, success: false, error: error.message }) }
CatchDevice(b, ip, msg) ==
  [b EXCEPT !.results = Append(@, [ip |-> ip, success |-> FALSE, error |-> Some(msg)])]

\* The state merged on success by the device operation a batch invokes.
BatchNewState(b) ==
  CASE b.op = "turnOnAll" -> [state |-> TRUE]
    [] b.op = "turnOffAll" -> [state |-> FALSE]
    [] b.op = "updateAllLights" -> UpdateState(b.payload)

DeviceOp(b) ==
  CASE b.op = "turnOnAll" -> "turnOn"
    [] b.op = "turnOffAll" -> "turnOff"
    [] b.op = "updateAllLights" -> "updateProperties"

DeviceThrows(b) == b.op = "updateAllLights" /\ UpdateRejects(UpdateParams(b.payload))

\* The loop from the iterator's position up to the next await on a send: a device
\* whose operation throws before any I/O is caught and the loop goes on. issue is
\* the address whose command is now awaited, None when the iterator is exhausted
\* (or an exception left the loop).
RECURSIVE Iterate(_)
Iterate(b) ==
  IF b.aborted THEN [batch |-> b, issue |-> None]
  ELSE LET n == NextEntry(b.last)
       IN IF n = None THEN [batch |-> b, issue |-> None]
          ELSE LET ip == Val(n)
                   b1 == [b EXCEPT !.last = lights[ip], !.cur = ip]
               IN IF DeviceThrows(b)
                  THEN Iterate(CatchDevice(
                         [b1 EXCEPT !.outcomes = Append(@, [ip |-> ip, h |-> lights[ip], outcome |-> "threw"])],
                         ip, "No valid properties provided"))
                  ELSE [batch |-> b1, issue |-> n]

\* results.some(r => r.success)
AnySuccess(results) == \E i \in 1..Len(results) : results[i].success

\* Either the next device's command is handed to its socket and the batch
\* suspends, or the loop is over and the batch returns its results.
BatchContinue(r, pending, open, notified) ==
  IF IsDef(r.issue)
  THEN /\ batch' = r.batch
       /\ sockets' = open + 1
       /\ cmds' = pending \cup {NewCmd(lights[Val(r.issue)], DeviceOp(r.batch),
                                       BatchNewState(r.batch), "batch")}
       /\ lobs' = [NoLObs EXCEPT !.op = "batchStep", !.ip = Val(r.issue),
                                !.h = lights[Val(r.issue)], !.sent = 1,
                                !.notified = notified]
  ELSE /\ batch' = NoBatch
       /\ cmds' = pending
       /\ sockets' = open
       /\ lobs' = [NoLObs EXCEPT !.op = "batchDone", !.agg = r.batch.agg,
                                !.threw = r.batch.aborted,
                                !.results = r.batch.results,
                                !.ret = IF r.batch.agg THEN Some(AnySuccess(r.batch.results)) ELSE None,
                                !.atStart = r.batch.atStart,
                                !.kept = {e \in r.batch.entries : lights[e[1]] = e[2]},
                                !.outcomes = r.batch.outcomes,
                                !.notified = notified]

\* turnOnAll() / turnOffAll() / updateAllLights(payload), or the manager's
\* turnOn() / turnOff() / updateProperties(payload) that wrap them
BatchStart(op, agg, p) ==
  /\ UNCHANGED <<rvars, dvars>>
  /\ batch.op = "none"
  /\ nBatches < MaxBatches
  /\ nBatches' = nBatches + 1
  /\ BatchContinue(Iterate([NoBatch EXCEPT !.op = op, !.agg = agg, !.payload = p,
                                          !.atStart = Managed,
                                          !.entries = {<<ip, lights[ip]>> : ip \in Managed}]),
                   cmds, sockets, <<>>)
  /\ UNCHANGED <<lights, nHandles, wired, lstate, nCmds>>

\* The send callback of the command a batch awaits fires: the device operation
\* returns, its result is pushed and the loop goes on.
BatchSendDone(c, ok) ==
  /\ UNCHANGED <<rvars, dvars>>
  /\ c \in cmds
  /\ c.owner = "batch"
  /\ LET out == ExecuteCommandOutcome(lstate[c.h], c.newState, ok)
         b1  == [batch EXCEPT !.outcomes = Append(@, [ip |-> batch.cur, h |-> c.h,
                                              outcome |-> IF ok THEN "ok" ELSE "sendFailed"])]
     IN /\ lstate' = [lstate EXCEPT ![c.h] = out.state]
        /\ BatchContinue(Iterate(PushResult(b1, batch.cur, out.ret)), cmds \ {c},
                         SocketsAfterSend(sockets, ~ok),
                         Notify(c.h, out.emitted, out.state))
  /\ UNCHANGED <<lights, nHandles, wired, nCmds, nBatches>>

RegistryNext ==
  \/ \E ip \in IPs : AddLight(ip)
  \/ \E ip \in IPs : RemoveLight(ip)
  \/ DisconnectAll
  \/ \E inp \in BatchInputs : BatchStart(inp[1], inp[2], inp[3])
  \/ \E c \in cmds, ok \in BOOLEAN : BatchSendDone(c, ok)

LightNext ==
  \/ \E ip \in IPs : AddLight(ip)
  \/ \E h \in Handles : TurnOn(h)
  \/ \E h \in Handles : TurnOff(h)
  \/ \E h \in Handles, p \in PayloadInputs : UpdateProperties(h, p)
  \/ \E c \in cmds, ok \in BOOLEAN : SendDone(c, ok)

----
\* ------------------------------------------------------- request routing
\* The lights of the JSON data, in the order getAllLights() returns them.
JsonLights == <<"192.168.1.10", "192.168.1.11">>

\* What a request may carry in the address position of /api/lights/<x>/on|off.
AddressSegments == IPs \cup {"all", "192.168.1.99"}

\* The POST routes on /api/lights, in the order app.post registers them.
Routes ==
  << [pattern |-> <<"api", "lights", ":ip", "on">>,  handler |-> "controlLight",     state |-> TRUE],
     [pattern |-> <<"api", "lights", ":ip", "off">>, handler |-> "controlLight",     state |-> FALSE],
     [pattern |-> <<"api", "lights", "all", "on">>,  handler |-> "controlAllLights", state |-> TRUE],
     [pattern |-> <<"api", "lights", "all", "off">>, handler |-> "controlAllLights", state |-> FALSE] >>

\* A pattern segment that starts with a colon is a named parameter.
IsParam(seg) == seg = ":ip"

\* A route matches a path of the same length whose segments are equal to the
\* pattern's, a named parameter matching any segment.
Matches(pattern, path) ==
  /\ Len(pattern) = Len(path)
  /\ \A k \in 1..Len(pattern) : IsParam(pattern[k]) \/ pattern[k] = path[k]

\* req.params: the segment each named parameter of the pattern matched.
Params(pattern, path) ==
  IF \E k \in 1..Len(pattern) : IsParam(pattern[k])
  THEN Some(path[CHOOSE k \in 1..Len(pattern) : IsParam(pattern[k])])
  ELSE None

\* The router runs the first registered route that matches; neither handler
\* calls next(), so no later route sees the request.
Dispatch(path) ==
  LET hits == {k \in 1..Len(Routes) : Matches(Routes[k].pattern, path)}
  IN IF hits = {} THEN [handler |-> "none", ip |-> None, state |-> FALSE]
     ELSE LET k == CHOOSE i \in hits : \A j \in hits : i <= j
          IN [handler |-> Routes[k].handler, ip |-> Params(Routes[k].pattern, path),
              state |-> Routes[k].state]

\* controlLight: 404 when the address is not a light of the JSON data; else the
\* handle is fetched or added and turnOn() / turnOff() runs up to its await.
controlLight(path, ip, stateValue) ==
  IF \A k \in 1..Len(JsonLights) : JsonLights[k] # ip
  THEN /\ lobs' = [NoLObs EXCEPT !.op = "request", !.phase = "done", !.ip = ip,
                                !.path = path, !.handler = "controlLight",
                                !.status = 404]
       /\ UNCHANGED <<lights, nHandles, lstate, wired, cmds, sockets, batch, nCmds, nBatches>>
  ELSE LET out == AddLightOutcome(lights, nHandles, ip)
       IN /\ nHandles + out.created <= MaxHandles
          /\ nCmds < MaxCmds
          /\ nCmds' = nCmds + 1
          /\ nHandles' = nHandles + out.created
          /\ lights' = out.lights
          /\ lstate' = IF out.created = 1 THEN Append(lstate, EmptyState) ELSE lstate
          /\ wired' = WireListener(wired, out, ip)
          /\ cmds' = cmds \cup {NewCmd(out.ret, IF stateValue THEN "turnOn" ELSE "turnOff",
                                       [state |-> stateValue], "caller")}
          /\ sockets' = sockets + 1
          /\ lobs' = [NoLObs EXCEPT !.op = "request", !.phase = "call", !.ip = ip,
                                   !.path = path, !.handler = "controlLight",
                                   !.h = out.ret, !.created = out.created, !.sent = 1]
          /\ UNCHANGED <<batch, nBatches>>

\* The loop of controlAllLights over the JSON lights from position k: each one
\* the manager does not hold is added.
RECURSIVE AddJsonLights(_, _)
AddJsonLights(k, m) ==
  IF k > Len(JsonLights) THEN m
  ELSE LET out == AddLightOutcome(m.lights, m.n, JsonLights[k])
       IN AddJsonLights(k + 1,
            [lights |-> out.lights, n |-> m.n + out.created,
             lstate |-> IF out.created = 1 THEN Append(m.lstate, EmptyState) ELSE m.lstate,
             wired |-> WireListener(m.wired, out, JsonLights[k])])

\* controlAllLights: every JSON light is added to the manager, then turnOnAll()
\* / turnOffAll() runs up to the await on its first device (the Map is not
\* empty: the JSON data holds lights).
controlAllLights(path, state) ==
  LET m == AddJsonLights(1, [lights |-> lights, n |-> nHandles, lstate |-> lstate,
                             wired |-> wired])
      held == {ip \in IPs : m.lights[ip] # 0}
      first == CHOOSE ip \in held : \A q \in held : m.lights[ip] <= m.lights[q]
      b == [NoBatch EXCEPT !.op = IF state THEN "turnOnAll" ELSE "turnOffAll",
                           !.atStart = held,
                           !.entries = {<<ip, m.lights[ip]>> : ip \in held},
                           !.last = m.lights[first], !.cur = first]
  IN /\ batch.op = "none"
     /\ nBatches < MaxBatches
     /\ m.n <= MaxHandles
     /\ nBatches' = nBatches + 1
     /\ nHandles' = m.n
     /\ lights' = m.lights
     /\ lstate' = m.lstate
     /\ wired' = m.wired
     /\ batch' = b
     /\ cmds' = cmds \cup {NewCmd(m.lights[first], DeviceOp(b), BatchNewState(b), "batch")}
     /\ sockets' = sockets + 1
     /\ lobs' = [NoLObs EXCEPT !.op = "request", !.phase = "call", !.path = path,
                              !.handler = "controlAllLights", !.ip = first,
                              !.h = m.lights[first], !.sent = 1]
     /\ UNCHANGED nCmds

\* POST /api/lights/<seg>/<verb>: the router picks the handler and the handler
\* runs up to its first await on I/O (or answers at once).
PostLights(seg, verb) ==
  /\ UNCHANGED <<rvars, dvars>>
  /\ LET path == <<"api", "lights", seg, verb>>
         r == Dispatch(path)
     IN CASE r.handler = "controlLight" -> controlLight(path, Val(r.ip), r.state)
          [] r.handler = "controlAllLights" -> controlAllLights(path, r.state)
          [] OTHER -> FALSE

RoutesNext ==
  \/ \E seg \in AddressSegments, verb \in {"on", "off"} : PostLights(seg, verb)
  \/ \E c \in cmds, ok \in BOOLEAN : SendDone(c, ok)

(***************************************************************************)
(*                               DISCOVERY                                 *)
(* WizLightManager.discover / discoverViaBroadcast / discoverViaPing (and  *)
(* the WizDiscovery class of the same text). An address is its host number *)
(* in the /24. Time advances when a timer fires; replies and errors arrive *)
(* between timers.                                                         *)
(***************************************************************************)
Hosts == 1..MaxHosts

\* The timeout arguments callers pass, in ms.
TimeoutInputs == {1000, 2000}

\* setInterval(sendBroadcast, 500)
ResendPeriod == 500

\* discover: timeout / 2 is given to each phase.
PhaseTimeout(t) == t \div 2

\* discoverViaPing: setTimeout(() => cleanup(null), timeout / 50)
ProbeDeadline(timeout) == timeout \div 50

\* The datagrams that arrive on a discovery socket, with the address they come
\* from (rinfo.address): host 1 answers with a mac, host 2 with a state only;
\* host 1 also sends bytes that are not JSON and host 2 a result that has
\* neither mac nor state.
ReplyInputs ==
  { [src |-> 1, json |-> TRUE,  result |-> Some([mac |-> Some("a8bb50"), state |-> None])],
    [src |-> 2, json |-> TRUE,  result |-> Some([mac |-> None, state |-> Some(FALSE)])],
    [src |-> 1, json |-> FALSE, result |-> None],
    [src |-> 2, json |-> TRUE,  result |-> Some([mac |-> None, state |-> None])] }

\* Faulty variant: the test of the mac and state fields is missing.
IsValidReply_NoFieldTest(m) == m.json /\ IsDef(m.result)

\* JSON.parse succeeds and
\* response.result && (response.result.mac || response.result.state !== undefined)
IsValidReply(m) ==
  /\ m.json
  /\ IsDef(m.result)
  /\ \/ (IsDef(Val(m.result).mac) /\ Val(Val(m.result).mac) # "")
     \/ IsDef(Val(m.result).state)

\* The DiscoveredDevice built from a reply (port, rssi and the raw response are
\* left out).
Device(m, method) ==
  [ip |-> m.src, mac |-> Val(m.result).mac, state |-> Val(m.result).state, method |-> method]

\* devices.find(d => d.ip === ip)
HasIp(devs, ip) == \E k \in 1..Len(devs) : devs[k].ip = ip

\* if (!devices.find(d => d.ip === device.ip)) devices.push(device)
BroadcastPush(devs, d) == IF HasIp(devs, d.ip) THEN devs ELSE Append(devs, d)

\* results.forEach(device => { if (device && !devices.find(...)) devices.push(device) })
RECURSIVE MergeFrom(_, _, _)
MergeFrom(results, k, devs) ==
  IF k > Len(results) THEN devs
  ELSE MergeFrom(results, k + 1,
                 IF IsDef(results[k]) /\ ~HasIp(devs, Val(results[k]).ip)
                 THEN Append(devs, Val(results[k]))
                 ELSE devs)

\* Faulty variant: every non-null probe result is pushed.
MergeResults_NoDedup(results) ==
  LET RECURSIVE All(_, _)
      All(k, devs) == IF k > Len(results) THEN devs
                      ELSE All(k + 1, IF IsDef(results[k]) THEN Append(devs, Val(results[k]))
                                       ELSE devs)
  IN All(1, <<>>)

\* The merge of the probes' results after Promise.all, in probe order.
MergeResults(results) == MergeFrom(results, 1, <<>>)

\* Faulty variant: the sweep is started whatever the broadcast found.
BroadcastFound_Never(devs) == FALSE

\* discover: if (broadcastDevices.length > 0) return broadcastDevices
BroadcastFound(devs) == Len(devs) > 0

\* A ping probe: its socket (open from createSocket to close, bound after the
\* bind callback), the responded flag, what its promise resolved to, and how
\* often socket.close() and resolve() were called.
NoProbe == [open |-> FALSE, bound |-> FALSE, responded |-> FALSE, result |-> None,
            closes |-> 0, resolves |-> 0]
NewProbe == [NoProbe EXCEPT !.open = TRUE]

\* Faulty variant: the responded flag is not tested.
cleanup_Unguarded(pr, result) ==
  [pr EXCEPT !.responded = TRUE, !.open = FALSE,
             !.result = IF pr.resolves = 0 THEN result ELSE @,
             !.closes = Min(@ + 1, 2), !.resolves = Min(@ + 1, 2)]

\* cleanup(result): the first call closes the socket and resolves the promise.
cleanup(pr, result) ==
  IF ~pr.responded
  THEN [pr EXCEPT !.responded = TRUE, !.open = FALSE, !.result = result,
                  !.closes = @ + 1, !.resolves = @ + 1]
  ELSE pr

\* What the properties need of the call's history: datagrams sent, replies
\* received, the addresses whose valid reply a socket of the current phase took
\* (and whether one of them was taken more than once), whether a socket met an
\* error, when the broadcast phase
\* ended and with how many devices, and which phase the result is from.
NoStat == [broadcasts |-> 0, probesSent |-> 0, replies |-> 0, accepted |-> {},
           repeated |-> FALSE, erred |-> FALSE, bcastEnd |-> 0, bcastFound |-> 0, from |-> "none", doneAt |-> 0]

\* A valid reply from src was taken.
Accept(st, src) ==
  [st EXCEPT !.replies = @ + 1, !.accepted = @ \cup {src},
             !.repeated = @ \/ src \in st.accepted]

DInit ==
  /\ dphase = "IDLE"
  /\ dtimeout = 0
  /\ now = 0
  /\ devices = <<>>
  /\ dtimers = {}
  /\ probes = [i \in Hosts |-> NoProbe]
  /\ discoveredDevices = <<>>
  /\ dstat = NoStat

Timer(kind, i, at) == [kind |-> kind, i |-> i, at |-> at]

\* The timer the event loop runs next: none is due earlier.
Due(t) == t \in dtimers /\ \A u \in dtimers : t.at <= u.at

notDiscovery == <<rvars, lvars>>

----
\* discover(timeout, subnet) up to the await of the broadcast phase: the socket is
\* created, the first broadcast sent, the resend interval and the phase timer set.
Discover(t) ==
  /\ UNCHANGED notDiscovery
  /\ dphase = "IDLE"
  /\ dphase' = "BROADCASTING"
  /\ dtimeout' = t
  /\ dtimers' = {Timer("resend", 0, now + ResendPeriod),
                 Timer("deadline", 0, now + PhaseTimeout(t))}
  /\ dstat' = [dstat EXCEPT !.broadcasts = 1]
  /\ UNCHANGED <<now, devices, probes, discoveredDevices>>

\* socket.on('message') of the broadcast socket
BroadcastMessage(m) ==
  /\ UNCHANGED notDiscovery
  /\ dphase = "BROADCASTING"
  /\ dstat.replies < MaxReplies
  /\ IF IsValidReply(m)
     THEN /\ devices' = BroadcastPush(devices, Device(m, "broadcast"))
          /\ dstat' = Accept(dstat, m.src)
     ELSE /\ UNCHANGED devices
          /\ dstat' = [dstat EXCEPT !.replies = @ + 1]
  /\ UNCHANGED <<dphase, dtimeout, now, dtimers, probes, discoveredDevices>>

\* Faulty variant: an error of the broadcast socket fails the discovery.
OnBroadcastError_Fails(phase) == "FAILED"

\* The 'error' listener of the broadcast socket and the error branch of the send
\* callback only log: the promise of the phase is neither resolved nor rejected.
OnBroadcastError(phase) == phase

\* socket.on('error') of the broadcast socket, or the callback of socket.send
\* with an error
BroadcastError ==
  /\ UNCHANGED notDiscovery
  /\ dphase = "BROADCASTING"
  /\ dphase' = OnBroadcastError(dphase)
  /\ dstat' = [dstat EXCEPT !.erred = TRUE]
  /\ UNCHANGED <<dtimeout, now, devices, dtimers, probes, discoveredDevices>>

\* The resend interval fires: sendBroadcast()
BroadcastResend(t) ==
  /\ UNCHANGED notDiscovery
  /\ Due(t) /\ t.kind = "resend"
  /\ now' = t.at
  /\ dtimers' = (dtimers \ {t}) \cup {Timer("resend", 0, t.at + ResendPeriod)}
  /\ dstat' = [dstat EXCEPT !.broadcasts = @ + 1]
  /\ UNCHANGED <<dphase, dtimeout, devices, probes, discoveredDevices>>

\* Faulty variant: the resend interval is not cleared.
ClearPhaseTimers_KeepsInterval(ts) == {u \in ts : u.kind # "deadline"}

\* The timers left when the phase timer has fired and run clearInterval(intervalId).
ClearPhaseTimers(ts) == {u \in ts : u.kind \notin {"resend", "deadline"}}

\* The phase timer fires: clearInterval, socket.close(), resolve(devices); then
\* discover goes on: it returns the broadcast list, or starts the ping sweep
\* (discoverViaPing creates one socket per host and asks each to bind).
BroadcastDeadline(t) ==
  /\ UNCHANGED notDiscovery
  /\ Due(t) /\ t.kind = "deadline"
  /\ now' = t.at
  /\ dtimers' = ClearPhaseTimers(dtimers)
  /\ IF BroadcastFound(devices)
     THEN /\ dphase' = "DONE"
          /\ discoveredDevices' = devices
          /\ dstat' = [dstat EXCEPT !.bcastEnd = t.at, !.bcastFound = Len(devices),
                                    !.from = "broadcast", !.doneAt = t.at]
          /\ UNCHANGED probes
     ELSE /\ dphase' = "PING_SWEEPING"
          /\ probes' = [i \in Hosts |-> NewProbe]
          /\ dstat' = [dstat EXCEPT !.bcastEnd = t.at, !.bcastFound = Len(devices),
                                    !.accepted = {}, !.repeated = FALSE]
          /\ UNCHANGED discoveredDevices
  /\ UNCHANGED <<dtimeout, devices>>

\* Faulty variant: the sweep returns only when every probe has found a device.
SweepJoin_NeedsDevices(ps, st, time) ==
  IF \A i \in Hosts : ps[i].responded /\ ps[i].result # None
  THEN /\ dphase' = "DONE"
       /\ discoveredDevices' = MergeResults([i \in Hosts |-> ps[i].result])
       /\ dstat' = [st EXCEPT !.from = "ping", !.doneAt = time]
  ELSE /\ UNCHANGED <<dphase, discoveredDevices>>
       /\ dstat' = st

\* await Promise.all(promises), then the merge and the return: runs in the step
\* that resolves the last probe. ps are the probes and st the statistics after
\* that step, at the time.
SweepJoin(ps, st, time) ==
  IF \A i \in Hosts : ps[i].responded
  THEN /\ dphase' = "DONE"
       /\ discoveredDevices' = MergeResults([i \in Hosts |-> ps[i].result])
       /\ dstat' = [st EXCEPT !.from = "ping", !.doneAt = time]
  ELSE /\ UNCHANGED <<dphase, discoveredDevices>>
       /\ dstat' = st

\* The bind callback of probe i: the probe datagram is sent and the probe's
\* timer set.
ProbeBound(i) ==
  /\ UNCHANGED notDiscovery
  /\ probes[i].open /\ ~probes[i].bound
  /\ probes' = [probes EXCEPT ![i].bound = TRUE]
  /\ dtimers' = dtimers \cup {Timer("probe", i, now + ProbeDeadline(PhaseTimeout(dtimeout)))}
  /\ dstat' = [dstat EXCEPT !.probesSent = @ + 1]
  /\ UNCHANGED <<dphase, dtimeout, now, devices, discoveredDevices>>

\* socket.on('message') of probe i
ProbeMessage(i, m) ==
  /\ UNCHANGED notDiscovery
  /\ probes[i].open /\ probes[i].bound
  /\ dstat.replies < MaxReplies
  /\ IF IsValidReply(m)
     THEN /\ probes' = [probes EXCEPT ![i] = cleanup(@, Some(Device(m, "ping")))]
          /\ SweepJoin(probes', Accept(dstat, m.src), now)
     ELSE /\ UNCHANGED <<probes, dphase, discoveredDevices>>
          /\ dstat' = [dstat EXCEPT !.replies = @ + 1]
  /\ UNCHANGED <<dtimeout, now, devices, dtimers>>

\* socket.on('error') of probe i, or its send callback with an error: cleanup(null)
ProbeError(i) ==
  /\ UNCHANGED notDiscovery
  /\ probes[i].open
  /\ probes' = [probes EXCEPT ![i] = cleanup(@, None)]
  /\ SweepJoin(probes', [dstat EXCEPT !.erred = TRUE], now)
  /\ UNCHANGED <<dtimeout, now, devices, dtimers>>

\* The timer of probe i fires: cleanup(null)
ProbeTimeout(t) ==
  /\ UNCHANGED notDiscovery
  /\ Due(t) /\ t.kind = "probe"
  /\ now' = t.at
  /\ dtimers' = dtimers \ {t}
  /\ probes' = [probes EXCEPT ![t.i] = cleanup(@, None)]
  /\ IF dphase = "PING_SWEEPING"
     THEN SweepJoin(probes', dstat, t.at)
     ELSE UNCHANGED <<dphase, discoveredDevices, dstat>>
  /\ UNCHANGED <<dtimeout, devices>>

DiscoveryNext ==
  \/ \E t \in TimeoutInputs : Discover(t)
  \/ \E m \in ReplyInputs : BroadcastMessage(m)
  \/ BroadcastError
  \/ \E t \in dtimers : BroadcastResend(t)
  \/ \E t \in dtimers : BroadcastDeadline(t)
  \/ \E i \in Hosts : ProbeBound(i)
  \/ \E i \in Hosts, m \in ReplyInputs : ProbeMessage(i, m)
  \/ \E i \in Hosts : ProbeError(i)
  \/ \E t \in dtimers : ProbeTimeout(t)

----
\* ------------------------------------------- WizDiscovery (the older class)
\* discoverViaPing(timeout) and testSingleIP(ip, timeout) of WizDiscovery have
\* no cleanup function: each handler tests the responded flag itself, and only
\* the message handler sets it.

\* The message handler on a valid reply: if (responded) return; responded =
\* true; socket.close(); resolve(device).
LegacyReply(pr, result) ==
  IF pr.responded THEN pr
  ELSE [pr EXCEPT !.responded = TRUE, !.open = FALSE,
                  !.result = IF pr.resolves = 0 THEN result ELSE @,
                  !.closes = @ + 1, !.resolves = @ + 1]

\* The 'error' listener, the send callback with an error and the timer:
\* if (!responded) { socket.close(); resolve(null) }. The flag is left as it is
\* (a promise keeps the value of its first resolve).
LegacyFail(pr) ==
  IF pr.responded THEN pr
  ELSE [pr EXCEPT !.open = FALSE,
                  !.result = IF pr.resolves = 0 THEN None ELSE @,
                  !.closes = @ + 1, !.resolves = @ + 1]

\* testSingleIP takes any reply with a result; the sweep wants a mac or a state.
LegacyValid(phase, m) ==
  IF phase = "LEGACY_TEST" THEN m.json /\ IsDef(m.result) ELSE IsValidReply(m)

\* The timer of a probe: timeout / 50 in the sweep, timeout in testSingleIP.
LegacyDeadline(phase, timeout) ==
  IF phase = "LEGACY_TEST" THEN timeout ELSE timeout \div 50

\* The probes of the call in progress.
LegacyStarted == {i \in Hosts : probes[i].open \/ probes[i].resolves > 0}

\* The caller's await: Promise.all over the probes (the one promise of
\* testSingleIP), in the step that first resolves the last of them.
LegacyJoin(ps, st, time) ==
  IF dphase # "DONE" /\ \A i \in LegacyStarted : ps[i].resolves > 0
  THEN /\ dphase' = "DONE"
       /\ discoveredDevices' = IF dphase = "LEGACY_SWEEP"
                                THEN MergeResults([i \in Hosts |-> ps[i].result])
                                ELSE discoveredDevices
       /\ dstat' = [st EXCEPT !.from = "ping", !.doneAt = time]
  ELSE /\ UNCHANGED <<dphase, discoveredDevices>>
       /\ dstat' = st

\* WizDiscovery.discoverViaPing(timeout, subnet): one socket per host.
LegacyPing(t) ==
  /\ UNCHANGED notDiscovery
  /\ dphase = "IDLE"
  /\ dphase' = "LEGACY_SWEEP"
  /\ dtimeout' = t
  /\ probes' = [i \in Hosts |-> NewProbe]
  /\ UNCHANGED <<now, devices, dtimers, discoveredDevices, dstat>>

\* WizDiscovery.testSingleIP(ip, timeout)
LegacyTest(i, t) ==
  /\ UNCHANGED notDiscovery
  /\ dphase = "IDLE"
  /\ dphase' = "LEGACY_TEST"
  /\ dtimeout' = t
  /\ probes' = [probes EXCEPT ![i] = NewProbe]
  /\ UNCHANGED <<now, devices, dtimers, discoveredDevices, dstat>>

\* The bind callback: the probe datagram is sent and the timer set.
LegacyBound(i) ==
  /\ UNCHANGED notDiscovery
  /\ probes[i].open /\ ~probes[i].bound
  /\ probes' = [probes EXCEPT ![i].bound = TRUE]
  /\ dtimers' = dtimers \cup {Timer("probe", i, now + LegacyDeadline(dphase, dtimeout))}
  /\ dstat' = [dstat EXCEPT !.probesSent = @ + 1]
  /\ UNCHANGED <<dphase, dtimeout, now, devices, discoveredDevices>>

\* socket.on('message')
LegacyMessage(i, m) ==
  /\ UNCHANGED notDiscovery
  /\ probes[i].open /\ probes[i].bound
  /\ dstat.replies < MaxReplies
  /\ IF LegacyValid(dphase, m)
     THEN /\ probes' = [probes EXCEPT ![i] = LegacyReply(@, Some(Device(m, "ping")))]
          /\ LegacyJoin(probes', Accept(dstat, m.src), now)
     ELSE /\ UNCHANGED <<probes, dphase, discoveredDevices>>
          /\ dstat' = [dstat EXCEPT !.replies = @ + 1]
  /\ UNCHANGED <<dtimeout, now, devices, dtimers>>

\* socket.on('error'), or the send callback with an error
LegacyError(i) ==
  /\ UNCHANGED notDiscovery
  /\ probes[i].open
  /\ probes' = [probes EXCEPT ![i] = LegacyFail(@)]
  /\ LegacyJoin(probes', [dstat EXCEPT !.erred = TRUE], now)
  /\ UNCHANGED <<dtimeout, now, devices, dtimers>>

\* The timer of probe i fires.
LegacyTimeout(t) ==
  /\ UNCHANGED notDiscovery
  /\ Due(t) /\ t.kind = "probe"
  /\ now' = t.at
  /\ dtimers' = dtimers \ {t}
  /\ probes' = [probes EXCEPT ![t.i] = LegacyFail(@)]
  /\ LegacyJoin(probes', dstat, t.at)
  /\ UNCHANGED <<dtimeout, devices>>

LegacyNext ==
  \/ \E t \in TimeoutInputs : LegacyPing(t)
  \/ \E i \in Hosts, t \in TimeoutInputs : LegacyTest(i, t)
  \/ \E i \in Hosts : LegacyBound(i)
  \/ \E i \in Hosts, m \in ReplyInputs : LegacyMessage(i, m)
  \/ \E i \in Hosts : LegacyError(i)
  \/ \E t \in dtimers : LegacyTimeout(t)

Init == RInit /\ LInit /\ DInit

SpecRhythm == Init /\ [][RNext]_vars

SpecFacade == Init /\ [][FacadeNext]_vars

SpecLight == Init /\ [][LightNext]_vars

SpecRegistry == Init /\ [][RegistryNext]_vars

SpecDiscovery == Init /\ [][DiscoveryNext]_vars

SpecLegacy == Init /\ [][LegacyNext]_vars

SpecRoutes == Init /\ [][RoutesNext]_vars

\* What the event loop guarantees of a discover call: a timer that is due
\* fires, and the bind callback of a socket that has not failed is called.
\* Replies and errors may or may not come.
DiscoveryFairness ==
  /\ WF_vars(\E t \in dtimers : BroadcastResend(t))
  /\ WF_vars(\E t \in dtimers : BroadcastDeadline(t))
  /\ WF_vars(\E t \in dtimers : ProbeTimeout(t))
  /\ \A i \in Hosts : WF_vars(ProbeBound(i))

SpecDiscoveryFair == SpecDiscovery /\ DiscoveryFairness

----
\* ------------------------------------------------ device and registry claims

CountWhere(seq, P(_)) == Cardinality({i \in 1..Len(seq) : P(seq[i])})

\* C2: a batch call returns exactly one BatchResult per address that was managed
\* when the call started, also when addLight or removeLight ran while the batch
\* was suspended: the array length equals the device-set size at call time.
C2_OneResultPerAddressAtCallTime ==
  lobs.op = "batchDone"
    => /\ Len(lobs.results) = Cardinality(lobs.atStart)
       /\ {lobs.results[i].ip : i \in 1..Len(lobs.results)} = lobs.atStart

\* C3: with N devices managed at the call of which K fail, the batch returns N
\* results, exactly K with success false and N-K with success true, and the
\* manager's turnOn / turnOff / updateProperties reports success exactly when at
\* least one device succeeded (K < N).
C3_CountsAndAggregate ==
  lobs.op = "batchDone"
    => LET N == Cardinality(lobs.atStart)
           IsFailure(o) == o.outcome # "ok"
           IsFalse(r) == ~r.success
           IsTrue(r) == r.success
           K == CountWhere(lobs.outcomes, IsFailure)
       IN /\ Len(lobs.results) = N
          /\ CountWhere(lobs.results, IsFalse) = K
          /\ CountWhere(lobs.results, IsTrue) = N - K
          /\ (lobs.agg => lobs.ret = Some(K < N))

\* C4: in a batch a device that fails, by returning false or by throwing, gets a
\* BatchResult entry with success false (with the error text when it threw) and
\* the batch goes on: every device managed throughout the call is commanded and
\* has an entry, and the batch call itself never throws.
C4_FailureNeverAbortsBatch ==
  lobs.op = "batchDone"
    => /\ ~lobs.threw
       /\ Len(lobs.results) = Len(lobs.outcomes)
       /\ \A i \in 1..Len(lobs.outcomes) :
            /\ lobs.results[i].ip = lobs.outcomes[i].ip
            /\ lobs.results[i].success = (lobs.outcomes[i].outcome = "ok")
            /\ (lobs.outcomes[i].outcome = "threw" => IsDef(lobs.results[i].error))
       /\ \A e \in lobs.kept :
            \E i \in 1..Len(lobs.outcomes) :
              lobs.outcomes[i].ip = e[1] /\ lobs.outcomes[i].h = e[2]

\* A batch over two devices whose first device failed has completed.
C4_Witness ==
  /\ lobs.op = "batchDone"
  /\ Len(lobs.outcomes) = 2
  /\ lobs.outcomes[1].outcome # "ok"
  /\ Cardinality(lobs.kept) = 2

\* C5: a device's locally tracked state never holds both a colour and a
\* temperature: it reflects only the mode of the last successful update.
C5_ColourXorTemperature ==
  \A h \in Handles : ~(IsDef(lstate[h].color) /\ IsDef(lstate[h].temperature))

\* C9: turnOn() / turnOff() never throw. When the send succeeds the local on/off
\* state is the commanded value, exactly one stateChange is emitted and true is
\* returned; when it fails false is returned, the local state is unchanged, no
\* notification is emitted, and the datagram was sent once (no retry).
C9_PowerOptimisticContract ==
  (lobs.op \in {"turnOn", "turnOff"})
    => /\ ~lobs.threw
       /\ lobs.sent = 1
       /\ (lobs.phase = "done" /\ lobs.ok)
            => /\ lobs.ret = Some(TRUE)
               /\ lstate[lobs.h].state = Some(lobs.op = "turnOn")
               /\ lobs.emitted = 1
       /\ (lobs.phase = "done" /\ ~lobs.ok)
            => /\ lobs.ret = Some(FALSE)
               /\ lstate[lobs.h] = lobs.before
               /\ lobs.emitted = 0

\* A turnOff whose send failed has returned on a device that was on.
C9_Witness ==
  /\ lobs.op = "turnOff" /\ lobs.phase = "done" /\ ~lobs.ok
  /\ lobs.before.state = Some(TRUE)

\* The payload has a full colour, a brightness or a temperature.
Recognized(p) ==
  \/ /\ IsDef(p.color)
     /\ \A k \in {"r", "g", "b"} : IsDef(Val(p.color)[k])
  \/ IsDef(p.brightness)
  \/ IsDef(p.temperature)

\* C10: updateProperties with a payload that has no recognized field throws
\* before any network I/O: no datagram is sent (no command is left in flight),
\* the local state is unchanged and no notification is emitted.
C10_InvalidPayloadRejectedBeforeIO ==
  [][(lobs'.op = "updateProperties" /\ lobs'.phase = "call" /\ ~Recognized(lobs'.payload))
       => /\ lobs'.threw
          /\ lobs'.sent = 0
          /\ lobs'.emitted = 0
          /\ cmds' = cmds
          /\ lstate' = lstate]_vars

\* updateProperties has thrown on a device whose state was set before.
C10_Witness ==
  /\ lobs.op = "updateProperties" /\ lobs.phase = "call" /\ lobs.threw
  /\ lstate[lobs.h] # EmptyState

\* C11: updateProperties resolves an ambiguous payload by fixed priority. With a
\* full colour (r, g and b all present) the command sent is colour + brightness
\* and a temperature in the payload is ignored; otherwise with a brightness it is
\* brightness only; otherwise with a temperature it is temperature only. A call
\* that does not throw sends exactly one command, of one of these three shapes.
C11_PriorityOfCommandShapes ==
  (lobs.op = "updateProperties" /\ lobs.phase = "call" /\ ~lobs.threw)
    => LET p == lobs.payload
           full == IsDef(p.color) /\ \A k \in {"r", "g", "b"} : IsDef(Val(p.color)[k])
       IN /\ lobs.sent = 1
          /\ full => DOMAIN lobs.params = {"r", "g", "b", "dimming"}
          /\ (~full /\ IsDef(p.brightness)) => DOMAIN lobs.params = {"dimming"}
          /\ (~full /\ ~IsDef(p.brightness) /\ IsDef(p.temperature))
               => DOMAIN lobs.params = {"temp"}

\* A payload with a full colour and a temperature has been sent.
C11_Witness ==
  /\ lobs.op = "updateProperties" /\ lobs.phase = "call" /\ lobs.sent = 1
  /\ IsDef(lobs.payload.color) /\ IsDef(lobs.payload.temperature)
  /\ "r" \in DOMAIN lobs.params

\* The brightness a payload asks for: the colour's own brightness when a full
\* colour is given with one, else the payload's brightness, else the default 100.
BrightnessInput(p) ==
  IF HasFullColor(p) /\ IsDef(Val(p.color).brightness) THEN Val(Val(p.color).brightness)
  ELSE IF IsDef(p.brightness) THEN Val(p.brightness)
  ELSE 100

\* C12: every value put on the wire is the input saturated to its range:
\* dimming to [1,100] (brightness 0 or negative is sent as 1), each RGB channel
\* to [0,255], temperature to [2200,6500].
C12_WireValuesAreSaturatedInputs ==
  (lobs.op = "updateProperties" /\ lobs.phase = "call" /\ ~lobs.threw)
    => LET p == lobs.payload
           w == lobs.params
       IN /\ \A k \in {"r", "g", "b"} :
               k \in DOMAIN w => w[k] = Saturated(Val(Val(p.color)[k]), 0, 255)
          /\ "dimming" \in DOMAIN w => w.dimming = Saturated(BrightnessInput(p), 1, 100)
          /\ "temp" \in DOMAIN w => w.temp = Saturated(Val(p.temperature), 2200, 6500)

\* C13: in every reachable state the values in a device's locally tracked state
\* are inside their ranges: brightness in [1,100], each colour channel in
\* [0,255], temperature in [2200,6500], whatever inputs were passed.
C13_TrackedStateInRange ==
  \A h \in Handles :
    LET st == lstate[h]
    IN /\ IsDef(st.brightness) => Val(st.brightness) \in 1..100
       /\ IsDef(st.temperature) => Val(st.temperature) \in 2200..6500
       /\ IsDef(st.color)
            => \A k \in {"r", "g", "b"} :
                 IsDef(Val(st.color)[k]) => Val(Val(st.color)[k]) \in 0..255

\* C15: addLight is idempotent per address. Called for an address already
\* managed it returns the identical existing handle, constructs no handle,
\* registers no further notification listener and leaves the device count as it
\* was. A handle is constructed only for an address that has none in the Map, so
\* that there is at most one live handle per address.
C15_AddLightIdempotent ==
  [][(lobs'.op = "addLight")
       => /\ (lights[lobs'.ip] # 0)
               => /\ lobs'.h = lights[lobs'.ip]
                  /\ lobs'.created = 0
                  /\ nHandles' = nHandles
                  /\ lobs'.listeners = 0
                  /\ getLightCount' = getLightCount
                  /\ lights' = lights
          /\ \A a, b \in IPs : (a # b /\ lights'[a] # 0) => lights'[a] # lights'[b]]_vars

\* addLight has been called for an address that was managed already.
C15_Witness ==
  /\ lobs.op = "addLight" /\ lobs.created = 0
  /\ lights[lobs.ip] = lobs.h
  /\ nHandles >= 1

\* C16: removeLight(address) returns true exactly when a handle for the address
\* was managed; afterwards the address is not managed (getLight returns nothing)
\* and the device count is one lower. When the address was not managed it
\* returns false and changes nothing.
C16_RemoveLightContract ==
  [][\A ip \in IPs :
       (lobs'.op = "removeLight" /\ lobs'.ip = ip)
         => /\ lobs'.ret = Some(getLight(ip) # None)
            /\ getLight(ip)' = None
            /\ (getLight(ip) # None) => getLightCount' = getLightCount - 1
            /\ (getLight(ip) = None)
                 => /\ lights' = lights
                    /\ UNCHANGED <<nHandles, lstate, cmds, batch>>
                    /\ lobs'.emitted = 0]_vars

\* removeLight has returned true for one of two managed addresses.
C16_Witness ==
  /\ lobs.op = "removeLight" /\ lobs.ret = Some(TRUE)
  /\ getLight(lobs.ip) = None
  /\ getLightCount = 1

\* C17: the set of managed addresses changes only by explicit operations: an
\* entry is created only by a step of discovery or by addLight and removed only
\* by removeLight; every other registry operation leaves the set unchanged.
C17_ManagedSetChangesOnlyByAddOrRemove ==
  [][/\ (Managed' \ Managed # {}) => (lobs'.op = "addLight" \/ dvars' # dvars)
     /\ (Managed \ Managed' # {}) => lobs'.op = "removeLight"]_vars

\* ---------------------------------------------------------- discovery claims

PhaseMoves ==
  { <<"IDLE", "BROADCASTING">>, <<"BROADCASTING", "DONE">>,
    <<"BROADCASTING", "PING_SWEEPING">>, <<"PING_SWEEPING", "DONE">> }

\* C18: discover follows IDLE -> BROADCASTING -> DONE or
\* IDLE -> BROADCASTING -> PING_SWEEPING -> DONE. The ping sweep is started exactly
\* when the broadcast phase ended with zero devices; when the broadcast phase
\* found a device its list is returned and no ping probe socket is ever created
\* or probe sent; the list returned holds the devices of exactly one phase.
C18_DiscoverPhases ==
  [][/\ (dphase' # dphase) => <<dphase, dphase'>> \in PhaseMoves
     /\ (dphase = "BROADCASTING" /\ dphase' = "PING_SWEEPING") => Len(devices) = 0
     /\ (dphase = "BROADCASTING" /\ dphase' = "DONE")
          => (Len(devices) > 0 /\ discoveredDevices' = devices)
     /\ (Len(devices') > 0)
          => /\ dphase' \in {"BROADCASTING", "DONE"}
             /\ dstat'.probesSent = 0
             /\ \A i \in Hosts : probes'[i] = NoProbe
     /\ (dphase' = "DONE")
          => /\ dstat'.from = IF Len(devices') > 0 THEN "broadcast" ELSE "ping"
             /\ \A k \in 1..Len(discoveredDevices') :
                  discoveredDevices'[k].method = dstat'.from]_vars

\* discover has returned a device found by the ping sweep, after a broadcast
\* phase that sent the broadcast more than once and found nothing.
C18_Witness ==
  /\ dphase = "DONE" /\ dstat.from = "ping"
  /\ Len(discoveredDevices) >= 1
  /\ dstat.broadcasts >= 2 /\ dstat.bcastFound = 0

\* x is about target: within a quarter of it.
About(x, target) == 4 * (IF x >= target THEN x - target ELSE target - x) <= target

\* C19: with no device replying (and no socket error), discover(T) returns an
\* empty list after about T in total: the broadcast phase lasts about T/2 and
\* the ping sweep about T/2.
C19_NoReplyTakesWholeTimeout ==
  (dphase = "DONE" /\ dstat.replies = 0 /\ ~dstat.erred)
    => /\ discoveredDevices = <<>>
       /\ About(dstat.bcastEnd, dtimeout \div 2)
       /\ About(dstat.doneAt - dstat.bcastEnd, dtimeout \div 2)
       /\ About(dstat.doneAt, dtimeout)

Ips(devs) == {devs[k].ip : k \in 1..Len(devs)}

\* C20: in the list either discovery phase returns, every source address whose
\* reply was taken appears exactly once, however many replies it sent and, in
\* the ping sweep, however many probes took a reply from it.
C20_EachAddressOnce ==
  /\ Len(devices) = Cardinality(Ips(devices))
  /\ (dphase = "BROADCASTING") => Ips(devices) = dstat.accepted
  /\ (dphase = "DONE")
       => /\ Len(discoveredDevices) = Cardinality(Ips(discoveredDevices))
          /\ Ips(discoveredDevices) = dstat.accepted

\* The ping sweep has returned after two probes took a reply from one address.
C20_Witness ==
  /\ dphase = "DONE" /\ dstat.from = "ping"
  /\ dstat.repeated
  /\ Len(discoveredDevices) = 1

\* The reply parses as JSON and its result has a hardware id or a defined on/off
\* state.
Acceptable(m) ==
  /\ m.json
  /\ m.result # None
  /\ (Val(m.result).mac # None \/ Val(m.result).state # None)

HasIdOrState(d) == d.mac # None \/ d.state # None

\* C21: a reply is added to the discovered-device list only if it parses as JSON
\* and its result has a hardware id or a defined on/off state. Any other reply is
\* dropped: it adds no entry, does not end the ping probe that received it (the
\* probe's socket stays open, so a later valid reply is still taken) and does not
\* end the broadcast phase.
C21_OnlyValidRepliesListed ==
  [][/\ \A m \in ReplyInputs :
          /\ (BroadcastMessage(m) /\ ~Acceptable(m))
               => (devices' = devices /\ dphase' = "BROADCASTING")
          /\ \A i \in Hosts :
               (ProbeMessage(i, m) /\ ~Acceptable(m))
                 => /\ probes' = probes /\ probes'[i].open
                    /\ dphase' = dphase /\ discoveredDevices' = discoveredDevices
     /\ \A k \in 1..Len(devices') : HasIdOrState(devices'[k])
     /\ \A k \in 1..Len(discoveredDevices') : HasIdOrState(discoveredDevices'[k])
     /\ \A i \in Hosts : probes'[i].result # None => HasIdOrState(Val(probes'[i].result))]_vars

\* Discovery has seen two replies, dropped one of them and returned the device of
\* the other from the ping sweep.
C21_Witness ==
  /\ dphase = "DONE" /\ dstat.from = "ping"
  /\ dstat.replies = 2 /\ Cardinality(dstat.accepted) = 1 /\ ~dstat.repeated
  /\ Len(discoveredDevices) = 1

\* C22: a socket error or a send error during the broadcast phase never makes
\* discover fail: the phase and its deadline timer are left as they were, the
\* phase still ends at its deadline with the devices collected, and an empty
\* collection still starts the ping sweep.
C22_BroadcastErrorsNeverFail ==
  [][/\ dphase' # "FAILED"
     /\ BroadcastError
          => /\ dphase' = "BROADCASTING" /\ devices' = devices
             /\ Timer("deadline", 0, PhaseTimeout(dtimeout)) \in dtimers'
     /\ (dphase = "BROADCASTING" /\ dphase' # "BROADCASTING")
          => /\ now' = PhaseTimeout(dtimeout)
             /\ IF Len(devices) > 0
                THEN dphase' = "DONE" /\ discoveredDevices' = devices
                ELSE dphase' = "PING_SWEEPING" /\ \A i \in Hosts : probes'[i].open]_vars

\* After an error of the broadcast socket the phase has ended at its deadline
\* with nothing collected and the sweep has just been started.
C22_Witness ==
  /\ dphase = "PING_SWEEPING" /\ dstat.erred
  /\ dstat.bcastEnd = PhaseTimeout(dtimeout) /\ dstat.bcastFound = 0
  /\ \A i \in Hosts : probes[i].open /\ ~probes[i].bound

\* C26: a device command completes in the callback of the send, without waiting
\* for any reply of the device: whenever the send callback of turnOn, turnOff or
\* updateProperties fires the call returns (true when the datagram was handed
\* over, false on a send error) and is no longer pending, whether the device has
\* replied or not.
C26_CompletesOnSend ==
  [][lobs'.phase \in {"done", "waiting"}
       => /\ lobs'.phase = "done"
          /\ lobs'.ret = Some(lobs'.ok)
          /\ cmds' \subseteq cmds /\ cmds' # cmds]_vars

\* An updateProperties call has returned true from the send callback with no
\* reply of the device received.
C26_Witness ==
  /\ lobs.op = "updateProperties" /\ lobs.phase = "done"
  /\ ~lobs.replied /\ lobs.ret = Some(TRUE)

BatchIssued == {c \in cmds : c.owner = "batch"}

\* C27: a batch operation issues the command to every managed device before it
\* awaits the outcome of any of them: while the batch is in progress and no
\* outcome has been collected yet, one command per device managed at the start
\* is in flight; and the batch returns one outcome per such device.
C27_BatchFansOutConcurrently ==
  /\ (batch.op # "none" /\ batch.outcomes = <<>>)
       => Cardinality(BatchIssued) = Cardinality(batch.atStart)
  /\ (lobs.op = "batchDone" /\ ~lobs.threw /\ lobs.kept = {<<ip, lights[ip]>> : ip \in lobs.atStart})
       => Len(lobs.outcomes) = Cardinality(lobs.atStart)

\* C31: in the ping sweep every probe resolves once and closes its socket once,
\* in whatever order reply, send error, socket error and deadline occur: to the
\* device of its first valid reply, otherwise to nothing; nothing that happens
\* later changes a probe that has resolved; and the sweep returns only when
\* every probe has resolved.
C31_ProbeResolvesOnce ==
  [][/\ \A i \in Hosts :
          /\ probes'[i].closes <= 1 /\ probes'[i].resolves <= 1
          /\ probes'[i].responded
               <=> (probes'[i].closes = 1 /\ probes'[i].resolves = 1)
          /\ probes'[i].responded => ~probes'[i].open
          /\ probes[i].responded => probes'[i] = probes[i]
          /\ \A m \in ReplyInputs :
               (ProbeMessage(i, m) /\ Acceptable(m))
                 => probes'[i].result = Some(Device(m, "ping"))
          /\ (probes'[i].result # probes[i].result)
               => \E m \in ReplyInputs : ProbeMessage(i, m)
     /\ (dphase' = "DONE" /\ dstat'.from = "ping")
          => \A i \in Hosts : probes'[i].responded]_vars

\* The sweep has returned one device: a probe ended by a valid reply, another
\* probe ended by a socket error before its bind, and every probe timer has
\* fired since, that of the probe the reply had resolved included.
C31_Witness ==
  /\ dphase = "DONE" /\ dstat.from = "ping"
  /\ Len(discoveredDevices) = 1
  /\ \E i \in Hosts : probes[i].bound /\ probes[i].result # None
  /\ \E j \in Hosts : probes[j].responded /\ ~probes[j].bound
  /\ dtimers = {}

\* C32: in WizDiscovery's discoverViaPing and testSingleIP a probe's socket is
\* closed at most once and its promise resolved at most once: after a socket
\* error or a send error has ended the probe, the firing of its timer closes
\* and resolves nothing.
C32_LegacyProbeClosedOnce ==
  \A i \in Hosts : probes[i].closes <= 1 /\ probes[i].resolves <= 1

\* C33: every discover call eventually returns, whatever replies, malformed
\* replies, send errors and socket errors come or fail to come: the broadcast
\* phase ends at its deadline and every probe ends by reply, error or its timer.
C33_DiscoverReturns == (dphase # "IDLE") ~> (dphase = "DONE")

\* A call has returned from the sweep after a socket error and two replies that
\* were both dropped.
C33_Witness ==
  /\ dphase = "DONE" /\ dstat.from = "ping"
  /\ dstat.erred /\ dstat.replies = 2 /\ dstat.accepted = {}
  /\ discoveredDevices = <<>>

\* C34: the broadcast phase sends one probe at its start and one more every
\* 500 ms; it ends once, at the phase deadline, also when a device has been
\* found before; from the deadline on the repeat timer is cancelled, no probe
\* is broadcast and no reply changes the list the phase returned.
C34_BroadcastPhaseSchedule ==
  [][/\ (dphase = "IDLE" /\ dphase' = "BROADCASTING") => dstat'.broadcasts = 1
     /\ dphase' = "BROADCASTING"
          => /\ dphase \in {"IDLE", "BROADCASTING"}
             /\ \E t \in dtimers' :
                  /\ t.kind = "resend" /\ t.at = 500 * dstat'.broadcasts
                  /\ t.at <= now' + 500
             /\ now' <= PhaseTimeout(dtimeout')
     /\ (dphase = "BROADCASTING" /\ dphase' # "BROADCASTING")
          => /\ now' = PhaseTimeout(dtimeout)
             /\ dstat'.bcastFound = Len(devices) /\ devices' = devices
     /\ dphase \notin {"IDLE", "BROADCASTING"}
          => /\ dstat'.broadcasts = dstat.broadcasts
             /\ devices' = devices
             /\ \A t \in dtimers : t.kind = "probe"]_vars

\* The phase has broadcast more than once, has found a device and has ended at
\* its deadline, not earlier, with that device.
C34_Witness ==
  /\ dphase = "DONE" /\ dstat.from = "broadcast"
  /\ dstat.bcastFound = 1 /\ dstat.broadcasts >= 2
  /\ dstat.bcastEnd = PhaseTimeout(dtimeout)
  /\ dstat.replies = 1

\* C35: for every successful command on a managed device the registry emits
\* exactly one state-change notification, with that device's address and its
\* updated state; a failed command emits none. This holds after any sequence
\* of addLight calls, repeated calls for one address included.
C35_OneNotificationPerSuccess ==
  (lobs.phase = "done")
    => IF lobs.ok
       THEN /\ Len(lobs.notified) = 1
            /\ lights[lobs.notified[1].ip] = lobs.h
            /\ lobs.notified[1].state = lstate[lobs.h]
       ELSE lobs.notified = <<>>

\* A turnOn on the second of two managed devices has succeeded and has been
\* notified under that device's address.
C35_Witness ==
  /\ lobs.op = "turnOn" /\ lobs.phase = "done" /\ lobs.ok /\ lobs.h = 2
  /\ Len(lobs.notified) = 1 /\ lights[lobs.notified[1].ip] = 2
  /\ lobs.notified[1].state.state = Some(TRUE)

\* C36: after removeLight(address) a command that completes on the removed
\* handle makes the registry emit no state-change notification for that
\* address: every notification comes from the handle that is managed under the
\* notified address at that time.
C36_RemovedHandleIsSilent ==
  \A k \in 1..Len(lobs.notified) :
    lights[lobs.notified[k].ip] = lobs.notified[k].handle

\* C38: every sendCommand opens one socket and closes it once, when the send
\* succeeded and when it failed: the sockets open are those of the commands
\* still awaiting their send callback, so once every command has completed no
\* command socket is open.
C38_NoSocketLeftOpen ==
  /\ sockets = Cardinality(cmds)
  /\ (lobs.phase = "call" /\ ~lobs.threw) => lobs.sent = 1
  /\ cmds = {} => sockets = 0

\* Two commands have completed, the last one with a send error, and no socket
\* is open.
C38_Witness ==
  /\ nCmds = 2 /\ cmds = {} /\ sockets = 0
  /\ lobs.phase = "done" /\ ~lobs.ok

\* C39: a POST to /api/lights/all/on or /api/lights/all/off is dispatched to
\* the batch handler controlAllLights, not to the single-light handler with
\* the address parameter bound to "all".
C39_AllPathReachesBatchHandler ==
  (lobs.op = "request" /\ lobs.path \in {<<"api", "lights", "all", v>> : v \in {"on", "off"}})
    => /\ lobs.handler = "controlAllLights"
       /\ lobs.ip # "all"


====
